---- MODULE Spec2Model ----
(***************************************************************************)
(* The reactivity engine of reactive-js (core/reactive.js): dependency      *)
(* sets, effects, the batching scheduler, refs, computeds, watchers and     *)
(* effect scopes.  JavaScript runs one call stack at a time, so every API   *)
(* call is one action whose next state is computed by operators that follow *)
(* the called functions statement by statement, nested calls included; the  *)
(* scheduler's flush loop is one action per pass of its while loop.         *)
(***************************************************************************)
EXTENDS Integers, Sequences, FiniteSets, TLC

\* ------------------------------------------------------------------ bounds
\* refs hold the values 0..MaxVal
MaxVal == 1

\* part_005:82
MAX_FLUSH_ITERATIONS == 100

\* unit-tests.js:406, the value at which the guarded watchers stop incrementing
Limit == 5

\* --------------------------------------------------------------- universe
Refs      == {"a", "b"}
Computeds == {"c", "d"}
Cells     == Refs \cup Computeds

UserEffects == {"e1", "e2", "e3", "e4", "e5"}
Watchers    == {"w1", "w2"}
Notifiers   == {"nc", "nd"}
Disposers   == {"x1", "x2", "x3"}
Effects     == UserEffects \cup Watchers \cup Notifiers \cup Disposers

Scopes  == {"s1", "s2", "s3", "s4"}

\* JavaScript's null: no active effect, no active scope, no parent
Null == "null"
\* JavaScript's undefined, and "not read" in the observation records
Undef == -1

Values == 0..MaxVal

\* Objects and arrays live in a heap of cells with two members, p and q
\* (for an array: the elements 0 and 1).  A value is a number, Undef, or a
\* reference ObjBase + i to the heap cell i.  The cells 1..NUser are the
\* program's own objects; the cells after them hold the snapshots that the
\* watchers' deepClone allocates, NUser cells per watcher, and then the
\* clone that a deep watcher hands to its callback as newValue.
\* The proxies that reactive() creates are values of their own, ProxyBase + k.
ObjBase == 1000
ProxyBase == 2000
UserObjects == {1, 2, 3}
NUser == Cardinality(UserObjects)
HeapCells == 1..(4 * NUser)
ObjRef(i) == ObjBase + i
IsObject(v) == v > ObjBase /\ v < ProxyBase
CellOf(v) == v - ObjBase
UserRefs == {ObjRef(i) : i \in UserObjects}
\* where the snapshot of a watcher starts
Area(w) == IF w = "w1" THEN NUser ELSE 2 * NUser
\* where the newValue of a deep watcher starts
Scratch == 3 * NUser
NoObject == [kind |-> "none", p |-> Undef, q |-> Undef]

\* Each proxy of reactive() has its subsMap: one dependency set per member.
ProxyIds == {1, 2, 3, 4}
ProxyRef(k) == ProxyBase + k
IsProxy(v) == v > ProxyBase
ProxyOf(v) == v - ProxyBase
ProxyRefs == {ProxyRef(k) : k \in ProxyIds}
MemberNames == {"p", "q"}
PropCells == {"x1.p", "x1.q", "x2.p", "x2.q", "x3.p", "x3.q", "x4.p", "x4.q"}
\* getSubscribers(prop) of the proxy v
SubsOf(v, m) ==
    LET k == ProxyOf(v)
    IN  CASE k = 1 -> IF m = "p" THEN "x1.p" ELSE "x1.q"
          [] k = 2 -> IF m = "p" THEN "x2.p" ELSE "x2.q"
          [] k = 3 -> IF m = "p" THEN "x3.p" ELSE "x3.q"
          [] k = 4 -> IF m = "p" THEN "x4.p" ELSE "x4.q"
\* every dependency set: those of the refs and computeds, and those of the
\* members of the reactive proxies
Deps == Cells \cup PropCells
\* what reactive() can be given: an object of the program, or a proxy
Targets == UserRefs \cup ProxyRefs

\* the notifier pseudo-effect that computed(getter) creates for itself
NotifierOf(c) == IF c = "c" THEN "nc" ELSE "nd"
ComputedOf(n) == IF n = "nc" THEN "c" ELSE "d"

\* ------------------------------------------------------- sequence helpers
InSeq(x, s) == \E i \in 1..Len(s) : s[i] = x
\* Set.prototype.delete on an insertion-ordered Set
Delete(s, x) == SelectSeq(s, LAMBDA y : y # x)
\* Set.prototype.add on an insertion-ordered Set
Add(s, x) == IF InSeq(x, s) THEN s ELSE Append(s, x)
Front(s) == SubSeq(s, 1, Len(s) - 1)

\* ------------------------------------------------- user callbacks as data
\* The callbacks handed to effect(), watch() and onScopeDispose() are
\* sequences of instructions over the cells.
Ins(op, c, v, t, f) == [op |-> op, c |-> c, v |-> v, t |-> t, f |-> f]
\* c.value;
Read(c) == Ins("read", c, 0, c, c)
\* state.m1.m2;  for the proxy that reactive() returned first
Get(path) == Ins("get", path, 0, path, path)
\* c.value ? t.value : f.value;
ReadSel(c, t, f) == Ins("readSel", c, 0, t, f)
\* c.value = v;
Write(c, v) == Ins("write", c, v, c, c)
\* if (c.value < v) c.value++;
IncIf(c, v) == Ins("incIf", c, v, c, c)
\* c.value++;
Inc(c) == Ins("inc", c, 0, c, c)
\* if (c.value === v) runner.stop();   (runner: the effect running this callback)
StopIf(c, v) == Ins("stopIf", c, v, c, c)
\* if (c.value === v) throw new Error();
ThrowIf(c, v) == Ins("throwIf", c, v, c, c)

\* effect(() => { c.value; }, { sync });   (a nested effect)
NestedEffect(c, isSync) == Ins("effect", c, IF isSync THEN 1 ELSE 0, c, c)

\* try { effect(() => { if (c.value === v) throw new Error(); }); } catch {}
TryEffect(c, v) == Ins("tryEffect", c, v, c, c)

\* the callback of the effect of a data-for="x of c" list (bindForUnkeyed)
RenderFor(c) == Ins("renderFor", c, 0, c, c)
\* the callback of the effect of an [if]="c" element (bindIf)
RenderIf(c) == Ins("renderIf", c, 0, c, c)
\* the effect of bindIf for an element that holds a data-for list
RenderIfFor(c) == Ins("renderIf", c, 1, c, c)

NotRead == [c \in Cells |-> Undef]
NoRuns  == [e \in Effects |-> 0]
NoCalls == [c \in Computeds |-> 0]

\* ------------------------------------------------------------------ state
VARIABLES
    \* refs: the value each ref holds
    val,
    \* dependency sets: per cell, the subscribed effects in insertion order
    subs,
    \* effects (wrapped effects, watch effects, computed notifiers)
    created, fn, deps, stopped, sync,
    \* scheduler
    effectQueue, isFlushing, isFlushPending, iterations,
    microtasks,  \* the flushEffectQueue callbacks given to queueMicrotask that have not started yet
    \* re-entrancy stack
    activeEffect, effectStack,
    \* computeds
    getter, cached, dirty,
    \* watchers
    source, immediate, oldValue, initialized,
    \* objects and arrays
    heap,
    vSubs,       \* per array, its __v_subs: the dependency set its mutations trigger (Null: not wrapped)
    \* reactive proxies
    target,      \* per proxy, the object it wraps (Undef: not created)
    reactiveMap, \* the WeakMap from target to proxy
    handed,      \* per target, the proxies reactive(target) has returned so far (history variable)
    \* watchers of a reactive object
    watched, deep,
    \* effect scopes
    activeScope, scopeCreated, effects, children, scopeStopped,
    parentOf,    \* per scope, the scope that was live when it took this one as a child (history variable)
    \* the closure variables of the list and of the conditional directive
    iterationScopes, isInserted, innerScope,
    \* the component: its _mounted field (its _scope is the scope s1)
    mounted,
    \* what an observer of the run sees (history variables)
    observed,    \* the effects whose reads, hits and callback arguments are recorded (never changes)
    seen,        \* per effect, the value it read from each cell in its last run
    runs,        \* per effect, callback invocations during the last action
    flushRuns,   \* per effect, callback invocations in the flush that is running or has just returned
    hit,         \* per batched effect, the value-changing top-level writes, since the last flush
                 \* started, to refs it was subscribed to, directly or through a computed
                 \* (none, one, or more than one)
    hitAtFlush,  \* hit as it was when the flush that is running or has just returned started
    calls,       \* per computed, getter invocations during the last action
    reads,       \* per computed, reads of .value during the last action
    depChanged,  \* per computed, a cell its getter reads (transitively) changed since its last getter run
    staleRead,   \* a computed read during the last action returned a value that is not the getter's result
    lazyBroken,  \* a computed read during the last action ran the getter otherwise than exactly when a dependency had changed
    owner,       \* per effect, the scope it was registered in
    afterStop,   \* a callback was invoked although its effect's stop() had returned
    disposed,    \* per disposal callback, how many times it has been invoked (capped)
    cbArgs,      \* per watcher, <<newValue, oldValue>> of its last callback invocation during the last action
    snap,        \* per watcher: the contents of the value its last completed run read (last),
                 \* and for its last callback invocation during the last action the contents
                 \* of the oldValue argument (old), the contents the run before had read
                 \* (expected), and whether oldValue and newValue were one and the same
                 \* object (sameRef)
    scopeLog,    \* during the last action, for each statement that looked: <<the scope the
                 \* enclosing runInScope call named, the active scope it found>>
    lastOp,      \* the last action taken
    error        \* how the last action ended: "none", "effect" (a callback threw), "loop" (iteration cap)

vars == << val, subs, created, fn, deps, stopped, sync, effectQueue, isFlushing,
           isFlushPending, iterations, activeEffect, effectStack, getter, cached,
           dirty, source, immediate, oldValue, initialized, activeScope,
           scopeCreated, effects, children, scopeStopped, parentOf, seen, runs,
           flushRuns, hit, hitAtFlush, calls, reads, depChanged, staleRead,
           lazyBroken, disposed, cbArgs, lastOp, error, iterationScopes,
           isInserted, innerScope, owner, afterStop, observed, heap, snap,
           scopeLog, mounted, vSubs, target, reactiveMap, handed, watched,
           deep, microtasks >>

\* The whole heap as one record, which the operators below transform.
\* ret is the value of the last expression evaluated; exc says an exception
\* is propagating up the call stack.
Cur == [ val |-> val, subs |-> subs, created |-> created, fn |-> fn, deps |-> deps,
         stopped |-> stopped, sync |-> sync, effectQueue |-> effectQueue,
         isFlushing |-> isFlushing, isFlushPending |-> isFlushPending,
         iterations |-> iterations, activeEffect |-> activeEffect,
         effectStack |-> effectStack, getter |-> getter, cached |-> cached,
         dirty |-> dirty, source |-> source, immediate |-> immediate,
         oldValue |-> oldValue, initialized |-> initialized,
         activeScope |-> activeScope, scopeCreated |-> scopeCreated,
         effects |-> effects, children |-> children,
         scopeStopped |-> scopeStopped, parentOf |-> parentOf, seen |-> seen,
         runs |-> NoRuns, flushRuns |-> IF isFlushing THEN flushRuns ELSE NoRuns,
         hit |-> hit, hitAtFlush |-> IF isFlushing THEN hitAtFlush ELSE NoRuns,
         calls |-> NoCalls, reads |-> NoCalls,
         depChanged |-> depChanged, staleRead |-> FALSE, lazyBroken |-> FALSE,
         disposed |-> disposed, cbArgs |-> [w \in Watchers |-> <<Undef, Undef>>],
         iterationScopes |-> iterationScopes, isInserted |-> isInserted,
         innerScope |-> innerScope, owner |-> owner, afterStop |-> afterStop,
         observed |-> observed, heap |-> heap, scopeLog |-> <<>>,
         mounted |-> mounted, vSubs |-> vSubs, target |-> target,
         reactiveMap |-> reactiveMap, handed |-> handed, watched |-> watched,
         deep |-> deep, microtasks |-> microtasks,
         snap |-> [w \in Watchers |-> [snap[w] EXCEPT !.old = <<>>, !.expected = <<>>,
                                                      !.sameRef = FALSE]],
         ret |-> Undef, exc |-> FALSE,
         loop |-> FALSE, overflow |-> FALSE, cloneSeen |-> {}, next |-> 0 ]

Commit(R, op) ==
    /\ val' = R.val /\ subs' = R.subs /\ created' = R.created /\ fn' = R.fn
    /\ deps' = R.deps /\ stopped' = R.stopped /\ sync' = R.sync
    /\ effectQueue' = R.effectQueue /\ isFlushing' = R.isFlushing
    /\ isFlushPending' = R.isFlushPending /\ iterations' = R.iterations
    /\ activeEffect' = R.activeEffect /\ effectStack' = R.effectStack
    /\ getter' = R.getter /\ cached' = R.cached /\ dirty' = R.dirty
    /\ source' = R.source /\ immediate' = R.immediate /\ oldValue' = R.oldValue
    /\ initialized' = R.initialized /\ activeScope' = R.activeScope
    /\ scopeCreated' = R.scopeCreated /\ effects' = R.effects
    /\ children' = R.children /\ scopeStopped' = R.scopeStopped
    /\ parentOf' = R.parentOf /\ seen' = R.seen /\ runs' = R.runs
    /\ flushRuns' = R.flushRuns /\ hit' = R.hit /\ hitAtFlush' = R.hitAtFlush
    /\ calls' = R.calls /\ reads' = R.reads /\ depChanged' = R.depChanged
    /\ staleRead' = R.staleRead /\ lazyBroken' = R.lazyBroken
    /\ disposed' = R.disposed /\ cbArgs' = R.cbArgs
    /\ iterationScopes' = R.iterationScopes /\ isInserted' = R.isInserted
    /\ innerScope' = R.innerScope /\ owner' = R.owner /\ afterStop' = R.afterStop
    /\ observed' = R.observed /\ heap' = R.heap /\ snap' = R.snap
    /\ scopeLog' = R.scopeLog /\ mounted' = R.mounted
    /\ vSubs' = R.vSubs /\ target' = R.target /\ reactiveMap' = R.reactiveMap
    /\ handed' = R.handed /\ watched' = R.watched /\ deep' = R.deep
    /\ microtasks' = R.microtasks
    /\ lastOp' = op
    /\ error' = IF R.overflow THEN "overflow"
                ELSE IF R.loop THEN "loop" ELSE IF R.exc THEN "effect" ELSE "none"

\* ------------------------------------------------- dependency tracking
\* Invoke(R, f, x, y, z) is the call f(x, y, z) made in heap R: the functions
\* below call each other through it.
RECURSIVE Invoke(_, _, _, _, _)
RECURSIVE QueueAll(_, _, _), FreshOf(_, _), SumFresh(_, _, _), RefsOf(_, _),
          RefsOfAll(_, _, _), RawOf(_, _)

\* cleanup that empties effect.deps and leaves the dependency sets alone
CleanupDepsOnly(R, e) == [R EXCEPT !.deps[e] = <<>>]

\* cleanup(effect): leave every dependency set the effect is recorded in
Cleanup(R, e) ==
    [R EXCEPT !.subs = [c \in Deps |->
                           IF InSeq(c, R.deps[e]) THEN Delete(R.subs[c], e)
                                                  ELSE R.subs[c]],
              !.deps[e] = <<>>]

\* track without the subscribers.has(activeEffect) test: the Set takes the
\* effect once, effect.deps takes the set on every read
TrackNoHasCheck(R, cell) ==
    IF R.activeEffect = Null THEN R
    ELSE [R EXCEPT !.subs[cell] = Add(@, R.activeEffect),
                   !.deps[R.activeEffect] = Append(@, cell)]

\* track(subscribers): subscribe the running effect, once
Track(R, cell) ==
    IF R.activeEffect = Null THEN R
    ELSE IF InSeq(R.activeEffect, R.subs[cell]) THEN R
    ELSE [R EXCEPT !.subs[cell] = Append(@, R.activeEffect),
                   !.deps[R.activeEffect] = Append(@, cell)]

\* queueEffect with a list for a queue: no effectQueue.has(effect) test
QueueEffectNoDedupe(R, e) ==
    [R EXCEPT !.effectQueue = Append(@, e),
              !.isFlushPending = @ \/ (~R.isFlushing /\ ~R.isFlushPending),
              !.microtasks = IF ~R.isFlushing /\ ~R.isFlushPending THEN @ + 1 ELSE @]

\* queueEffect without the test of the two flags: a microtask per insertion
QueueEffectAlwaysSchedules(R, e) ==
    IF InSeq(e, R.effectQueue) THEN R
    ELSE [R EXCEPT !.effectQueue = Append(@, e),
                   !.isFlushPending = TRUE,
                   !.microtasks = IF @ < 2 THEN @ + 1 ELSE @]

\* queueEffect(effect): Set insertion, and the microtask on the first one
QueueEffect(R, e) ==
    IF InSeq(e, R.effectQueue) THEN R
    ELSE [R EXCEPT !.effectQueue = Append(@, e),
                   !.isFlushPending = @ \/ (~R.isFlushing /\ ~R.isFlushPending),
                   !.microtasks = IF ~R.isFlushing /\ ~R.isFlushPending THEN @ + 1 ELSE @]

\* asyncEffects.forEach(fn => queueEffect(fn))
QueueAll(R, es, i) ==
    IF i > Len(es) THEN R ELSE QueueAll(QueueEffect(R, es[i]), es, i + 1)

\* syncEffects.forEach(fn => { if (!fn.stopped) fn(); })
RunSync(R, es, i) ==
    IF R.exc \/ i > Len(es) THEN R
    ELSE Invoke(IF R.stopped[es[i]] THEN R ELSE Invoke(R, "callEffect", es[i], 0, 0),
                "runSync", es, i + 1, 0)

\* trigger that runs the sync members and queues nothing
TriggerSyncOnly(R, cell) ==
    Invoke(R, "runSync", SelectSeq(R.subs[cell], LAMBDA e : R.sync[e]), 1, 0)

\* trigger that queues the batched members the set has after the sync
\* members have run, instead of those of the snapshot
TriggerLive(R, cell) ==
    LET toRun        == R.subs[cell]
        syncEffects  == SelectSeq(toRun, LAMBDA e : R.sync[e])
        R1           == Invoke(R, "runSync", syncEffects, 1, 0)
    IN  IF cell = Null THEN R
        ELSE IF R1.exc THEN R1
        ELSE QueueAll(R1, SelectSeq(R1.subs[cell], LAMBDA e : ~R1.sync[e]), 1)

\* trigger(subscribers): snapshot, sync members inline, the others queued
Trigger(R, cell) ==
    LET toRun        == R.subs[cell]
        syncEffects  == SelectSeq(toRun, LAMBDA e : R.sync[e])
        asyncEffects == SelectSeq(toRun, LAMBDA e : ~R.sync[e])
        R1           == Invoke(R, "runSync", syncEffects, 1, 0)
    IN  IF cell = Null THEN R
        ELSE IF R1.exc THEN R1 ELSE QueueAll(R1, asyncEffects, 1)

\* effectStack.pop(); activeEffect = effectStack[effectStack.length - 1] || null
Pop(R) ==
    LET st == Front(R.effectStack)
    IN  [R EXCEPT !.effectStack = st,
                  !.activeEffect = IF Len(st) = 0 THEN Null ELSE st[Len(st)]]

\* effectStack.push(e); activeEffect = e
Push(R, e) == [R EXCEPT !.effectStack = Append(@, e), !.activeEffect = e]

\* wrappedEffect without its test of wrapped.stopped
WrappedEffectNoStopCheck(R, e) ==
    Pop(Invoke(Push(Cleanup(R, e), e), "fn", e, 0, 0))

\* wrappedEffect with the pop after fn() and not in a finally clause
WrappedEffectNoFinally(R, e) ==
    IF R.stopped[e] THEN R
    ELSE LET R1 == Invoke(Push(Cleanup(R, e), e), "fn", e, 0, 0)
         IN  IF R1.exc THEN R1 ELSE Pop(R1)

\* wrappedEffect(): the runner that effect() returns
WrappedEffect(R, e) ==
    IF R.stopped[e] THEN R
    ELSE Pop(Invoke(Push(Cleanup(R, e), e), "fn", e, 0, 0))

\* a read made by e's callback while e is the tracking effect is what the
\* run of e observes
Observe(R, e, c) ==
    IF R.exc \/ R.activeEffect # e \/ e \notin R.observed THEN R
    ELSE [R EXCEPT !.seen[e][c] = R.ret]

\* the callback handed to effect() (for a watcher: the watch effect's body)
Fn(R, e) ==
    IF e \in Watchers THEN Invoke([R EXCEPT !.seen[e] = NotRead], "watchFn", e, 0, 0)
    ELSE Invoke([R EXCEPT !.seen[e] = NotRead,
                          !.afterStop = @ \/ R.stopped[e],
                          !.runs[e] = @ + 1,
                          !.flushRuns[e] = IF R.isFlushing /\ e \in R.observed THEN @ + 1 ELSE @],
                "exec", e, R.fn[e], 1)

\* the statements of a callback, one after the other
Exec(R, e, prog, i) ==
    IF R.exc \/ i > Len(prog) THEN R
    ELSE Invoke(Invoke(R, "step", e, prog[i], 0), "exec", e, prog, i + 1)

\* one statement of a callback
Step(R, e, ins) ==
    IF ins.op = "write" THEN Invoke(R, "refSet", ins.c, ins.v, 0)
    ELSE IF ins.op = "get" THEN Invoke(R, "getPath", ProxyRef(1), ins.c, 1)
    ELSE IF ins.op = "renderFor" THEN Invoke(R, "renderFor", e, ins.c, 0)
    ELSE IF ins.op = "renderIf" THEN Invoke(R, "renderIf", e, ins.c, ins.v)
    ELSE IF ins.op = "effect" THEN Invoke(R, "effect", << Read(ins.c) >>, ins.v = 1, 0)
    ELSE IF ins.op = "tryEffect"
    THEN [Invoke(R, "effect", << ThrowIf(ins.c, ins.v) >>, FALSE, 0) EXCEPT !.exc = FALSE]
    ELSE LET R1 == Observe(Invoke(R, "readCell", ins.c, 0, 0), e, ins.c)
         IN  IF R1.exc THEN R1
             ELSE CASE ins.op = "read"    -> R1
                    [] ins.op = "readSel" ->
                          LET b == IF R1.ret # 0 THEN ins.t ELSE ins.f
                          IN  Observe(Invoke(R1, "readCell", b, 0, 0), e, b)
                    [] ins.op = "incIf"   ->
                          IF R1.ret < ins.v
                          THEN Invoke(R1, "refSet", ins.c, R1.ret + 1, 0) ELSE R1
                    [] ins.op = "inc"     -> Invoke(R1, "refSet", ins.c, R1.ret + 1, 0)
                    [] ins.op = "stopIf"  ->
                          IF R1.ret = ins.v THEN Invoke(R1, "effectStop", e, 0, 0) ELSE R1
                    [] ins.op = "throwIf" ->
                          IF R1.ret = ins.v THEN [R1 EXCEPT !.exc = TRUE] ELSE R1

\* ------------------------------------------------------------------- ref
\* the refs a computed's getter reads, through the computeds it reads
RefsOf(R, c) == IF c \in Refs THEN {c} ELSE RefsOfAll(R, R.getter[c], 1)
RefsOfAll(R, ops, i) ==
    IF i > Len(ops) THEN {} ELSE RefsOf(R, ops[i]) \cup RefsOfAll(R, ops, i + 1)

\* ref get trap, prop === "value"
RefGet(R, r) == [Track(R, r) EXCEPT !.ret = R.val[r]]

\* Array.isArray(v)
IsArray(R, v) == IsObject(v) /\ R.heap[CellOf(v)].kind = "array"

\* createArrayProxy(arr, subs): arr gets __v_subs and the patched prototype;
\* the proxy that is returned is identified with arr
CreateArrayProxy(R, arr, cell) ==
    [R EXCEPT !.vSubs[CellOf(arr)] = cell, !.ret = arr]

\* if (Array.isArray(newVal) && !newVal.__v_subs) newVal = createArrayProxy(newVal, subs)
WrapNew(R, r, v) ==
    IF IsArray(R, v) /\ R.vSubs[CellOf(v)] = Null THEN CreateArrayProxy(R, v, r) ELSE R

\* the number of elements of an array of at most two: p is [0], q is [1]
LenOf(o) == IF o.p = Undef THEN 0 ELSE IF o.q = Undef THEN 1 ELSE 2

\* The writes that the native method makes to this, in order: << m, v >> is
\* this[m] = v, and << m, Undef >> is delete this[m].  splice is
\* splice(0, 1); push and unshift take x.
ArrayMutatorMethods == {"push", "pop", "shift", "unshift", "splice", "sort", "reverse"}
OriginalMethod(o, method, x) ==
    LET n == LenOf(o)
    IN  CASE method = "push" ->
               IF n = 0 THEN << << "p", x >> >> ELSE << << "q", x >> >>
          [] method = "pop" ->
               IF n = 0 THEN <<>> ELSE IF n = 1 THEN << << "p", Undef >> >>
               ELSE << << "q", Undef >> >>
          [] method \in {"shift", "splice"} ->
               IF n = 0 THEN <<>> ELSE IF n = 1 THEN << << "p", Undef >> >>
               ELSE << << "p", o.q >>, << "q", Undef >> >>
          [] method = "unshift" ->
               IF n = 0 THEN << << "p", x >> >> ELSE << << "q", o.p >>, << "p", x >> >>
          [] method = "sort" ->
               IF n = 0 THEN <<>> ELSE IF n = 1 THEN << << "p", o.p >> >>
               ELSE IF o.p <= o.q THEN << << "p", o.p >>, << "q", o.q >> >>
               ELSE << << "p", o.q >>, << "q", o.p >> >>
          [] method = "reverse" ->
               IF n < 2 THEN <<>> ELSE << << "p", o.q >>, << "q", o.p >> >>

\* the set trap of the array proxy, numeric index: target[prop] = value;
\* trigger(subs).  An array that was never wrapped has no proxy.
ArraySetIndex(R, arr, m, v) ==
    Invoke([R EXCEPT !.heap[CellOf(arr)][m] = v], "trigger", R.vSubs[CellOf(arr)], 0, 0)

\* the writes of the native method, each index assignment through the proxy
ArrayWrites(R, arr, ws, i) ==
    IF R.exc \/ i > Len(ws) THEN R
    ELSE Invoke(IF ws[i][2] = Undef THEN [R EXCEPT !.heap[CellOf(arr)][ws[i][1]] = Undef]
                ELSE Invoke(R, "arraySetIndex", arr, ws[i][1], ws[i][2]),
                "arrayWrites", arr, ws, i + 1)

\* patchedArrayMethods[methodName]: the native method, then trigger(this.__v_subs)
PatchedMethod(R, arr, method, x) ==
    LET R1 == Invoke(R, "arrayWrites", arr, OriginalMethod(R.heap[CellOf(arr)], method, x), 1)
    IN  IF R1.exc THEN R1 ELSE Invoke(R1, "trigger", R1.vSubs[CellOf(arr)], 0, 0)

\* the object under a tower of proxies
RawOf(R, v) == IF IsProxy(v) THEN RawOf(R, R.target[ProxyOf(v)]) ELSE v

\* new Proxy(target, handler): the proxies are numbered in order of creation
FreeProxies(R) == {k \in ProxyIds : R.target[k] = Undef}
NewProxy(R) == ProxyRef(CHOOSE k \in FreeProxies(R) : \A j \in FreeProxies(R) : k <= j)

\* reactive(target) that never looks into reactiveMap
ReactiveNoCache(R, t) ==
    LET proxy == NewProxy(R)
    IN  [R EXCEPT !.target[ProxyOf(proxy)] = t, !.reactiveMap[t] = proxy,
                  !.handed[t] = @ \cup {proxy}, !.ret = proxy]

\* reactive(target): the proxy that reactiveMap holds for target, or a new
\* one that is put into it; handed records what was returned.  A chain of
\* calls that asks for more proxies than ProxyIds holds is a recursion that
\* puts a new proxy around the last one at every level: the engine ends it
\* with a RangeError when the call stack is full
Reactive(R, t) ==
    IF ~IsObject(t) /\ ~IsProxy(t) THEN [R EXCEPT !.ret = t]
    ELSE IF R.reactiveMap[t] # Undef
    THEN [R EXCEPT !.ret = R.reactiveMap[t], !.handed[t] = @ \cup {R.reactiveMap[t]}]
    ELSE IF FreeProxies(R) = {}
    THEN [R EXCEPT !.ret = Undef, !.exc = TRUE, !.overflow = TRUE]
    ELSE LET proxy == NewProxy(R)
         IN  [R EXCEPT !.target[ProxyOf(proxy)] = t, !.reactiveMap[t] = proxy,
                       !.handed[t] = @ \cup {proxy}, !.ret = proxy]

\* target[prop] and target[prop] = v in the traps of reactive: target is an
\* object, or a proxy when reactive() was given one
GetOn(R, t, m) ==
    IF IsProxy(t) THEN Invoke(R, "proxyGet", t, m, 0)
    ELSE [R EXCEPT !.ret = R.heap[CellOf(t)][m]]
SetOn(R, t, m, v) ==
    IF IsProxy(t) THEN Invoke(R, "proxySet", t, m, v)
    ELSE [R EXCEPT !.heap[CellOf(t)][m] = v]

\* reactive / handler.get
ProxyGet(R, proxy, m) ==
    LET t     == R.target[ProxyOf(proxy)]
        R1    == GetOn(Track(R, SubsOf(proxy, m)), t, m)
        value == R1.ret
    IN  IF R1.exc THEN R1
        ELSE IF IsArray(R1, value)
        THEN GetOn(IF R1.vSubs[CellOf(value)] = Null
                   THEN SetOn(CreateArrayProxy(R1, value, SubsOf(proxy, m)), t, m, value)
                   ELSE R1, t, m)
        ELSE IF IsObject(value) \/ IsProxy(value) THEN Invoke(R1, "reactive", value, 0, 0)
        ELSE R1

\* a set trap that triggers the dependency sets of all properties
ProxySetAllProps(R, proxy, m, v) ==
    LET t  == R.target[ProxyOf(proxy)]
        R1 == GetOn(R, t, m)
        R2 == SetOn(R1, t, m, v)
    IN  IF R1.exc \/ R1.ret = v THEN R1
        ELSE IF R2.exc THEN R2
        ELSE Invoke(Invoke(R2, "trigger", SubsOf(proxy, "p"), 0, 0),
                    "trigger", SubsOf(proxy, "q"), 0, 0)

\* reactive / handler.set
ProxySet(R, proxy, m, v) ==
    LET t  == R.target[ProxyOf(proxy)]
        R1 == GetOn(R, t, m)
        R2 == SetOn(R1, t, m, v)
    IN  IF R1.exc \/ R1.ret = v THEN R1
        ELSE IF R2.exc THEN R2
        ELSE Invoke(R2, "trigger", SubsOf(proxy, m), 0, 0)

\* state.m1.m2 ... : the members of path read one after the other
GetPath(R, v, path, i) ==
    IF R.exc \/ i > Len(path) THEN [R EXCEPT !.ret = v]
    ELSE LET G == Invoke(R, "proxyGet", v, path[i], 0)
         IN  Invoke(G, "getPath", G.ret, path, i + 1)

\* ref set trap, prop === "value"; the array a ref holds is identified with
\* the proxy createArrayProxy wraps it in
RefSet(R, r, v) ==
    IF ~IsArray(R, v) /\ R.val[r] = v THEN R
    ELSE Invoke(
           [WrapNew(R, r, v) EXCEPT !.val[r] = v,
                     !.depChanged = [c \in Computeds |->
                                        @[c] \/ (R.created[NotifierOf(c)] /\ r \in RefsOf(R, c))],
                     !.hit = [e \in Effects |->
                                IF /\ ~R.isFlushing /\ ~R.sync[e] /\ e \in R.observed
                                   /\ \/ InSeq(e, R.subs[r])
                                      \/ \E c \in Computeds : /\ InSeq(e, R.subs[c])
                                                              /\ r \in RefsOf(R, c)
                                   /\ @[e] < 2
                                THEN @[e] + 1 ELSE @[e]]],
           "trigger", r, 0, 0)

\* -------------------------------------------------------------- computed
\* the getter's result on the values the cells hold now
FreshOf(R, cell) ==
    IF cell \in Refs THEN R.val[cell]
    ELSE IF R.stopped[NotifierOf(cell)] THEN R.cached[cell]
    ELSE SumFresh(R, R.getter[cell], 1)
SumFresh(R, ops, i) ==
    IF i > Len(ops) THEN 0 ELSE FreshOf(R, ops[i]) + SumFresh(R, ops, i + 1)

\* the getters of this model add up the cells they read: x.value + y.value
ReadAll(R, ops, i, acc) ==
    IF i > Len(ops) THEN [R EXCEPT !.ret = acc]
    ELSE LET R1 == Invoke(R, "readCell", ops[i], 0, 0)
         IN  IF R1.exc THEN R1 ELSE Invoke(R1, "readAll", ops, i + 1, acc + R1.ret)

\* computedNotifier(): mark dirty and notify the readers, never recompute
ComputedNotifier(R, c) ==
    IF R.stopped[NotifierOf(c)] THEN R
    ELSE IF ~R.dirty[c] THEN Invoke([R EXCEPT !.dirty[c] = TRUE], "trigger", c, 0, 0)
    ELSE R

\* fn(): a member of a dependency set or of the queue is a wrapped effect
\* (effect, watch effect) or a computed's notifier
CallEffect(R, e) ==
    IF e \in Notifiers THEN ComputedNotifier(R, ComputedOf(e))
                       ELSE WrappedEffect(R, e)

\* recompute(): run the getter with the notifier as the tracking effect
Recompute(R, c) ==
    LET n  == NotifierOf(c)
        R1 == Push(Cleanup(R, n), n)
        R2 == Invoke([R1 EXCEPT !.calls[c] = @ + 1, !.depChanged[c] = FALSE],
                     "readAll", R.getter[c], 1, 0)
        R3 == Pop(R2)
    IN  IF R2.exc THEN R3
        ELSE [R3 EXCEPT !.cached[c] = R2.ret, !.dirty[c] = FALSE]

\* computed get trap, prop === "value"
ComputedGet(R, c) ==
    LET n    == NotifierOf(c)
        must == R.dirty[c] /\ ~R.stopped[n]
        R1   == IF must THEN Recompute(R, c) ELSE R
    IN  IF R1.exc THEN R1
        ELSE LET R2 == Track(R1, c)
                 v  == R2.cached[c]
             IN  [R2 EXCEPT !.ret = v,
                            !.reads[c] = @ + 1,
                            !.staleRead = @ \/ (~R.stopped[n] /\ v # FreshOf(R2, c)),
                            !.lazyBroken = @ \/ (~R.stopped[n] /\ (R.depChanged[c] # must))]

\* a set trap that stores the value and notifies the computed's readers
ComputedSetWrites(R, c, v) ==
    Invoke([R EXCEPT !.cached[c] = v], "trigger", c, 0, 0)

\* computed / set () { return false; }: the assignment is refused and nothing
\* is written (code in strict mode gets a TypeError from the language)
ComputedSet(R, c, v) == R

\* x.value, for a ref or a computed x
ReadCell(R, cell) ==
    IF cell \in Refs THEN RefGet(R, cell) ELSE ComputedGet(R, cell)

\* ----------------------------------------------------------------- watch
\* the contents of a value, written out member by member down to the given
\* depth: what assert.deepStrictEqual compares
KindToken(k) == IF k = "array" THEN -3 ELSE -2
Cut == -4
RECURSIVE Contents(_, _, _)
Contents(h, v, depth) ==
    IF ~IsObject(v) THEN << v >>
    ELSE IF depth = 0 THEN << Cut >>
    ELSE << KindToken(h[CellOf(v)].kind) >>
            \o Contents(h, h[CellOf(v)].p, depth - 1)
            \o Contents(h, h[CellOf(v)].q, depth - 1)
\* no chain of members from an object leads back to it: a chain of more than
\* NUser objects repeats one
ContentsOf(h, v) == Contents(h, v, NUser + 1)
IsAcyclic(contents) == ~InSeq(Cut, contents)

\* cloned[key] = deepClone(val[key], seen) for an own key of the proxy val:
\* val[key] goes through the get trap
CloneMember(R, v, o, m) ==
    IF R.exc THEN R
    ELSE IF o[m] = Undef THEN [R EXCEPT !.ret = Undef]
    ELSE LET G == Invoke(R, "proxyGet", v, m, 0)
         IN  IF G.exc THEN G ELSE Invoke(G, "deepClone", G.ret, 0, 0)

\* deepClone(val, seen): R.cloneSeen is the WeakSet seen, R.next the heap
\* cell before the one the next {} or [] is put in
DeepClone(R, v) ==
    IF ~IsObject(v) /\ ~IsProxy(v) THEN [R EXCEPT !.ret = v]
    ELSE IF v \in R.cloneSeen THEN [R EXCEPT !.ret = Undef]
    ELSE IF IsProxy(v)
    THEN LET k  == R.next + 1
             o  == R.heap[CellOf(RawOf(R, v))]
             R1 == [R EXCEPT !.cloneSeen = @ \cup {v}, !.next = k,
                             !.heap[k] = [kind |-> "object", p |-> Undef, q |-> Undef]]
             R2 == CloneMember(R1, v, o, "p")
             R3 == CloneMember([R2 EXCEPT !.heap[k].p = R2.ret], v, o, "q")
         IN  [R3 EXCEPT !.heap[k].q = R3.ret, !.ret = ObjRef(k)]
    ELSE LET k  == R.next + 1
             o  == R.heap[CellOf(v)]
             R1 == [R EXCEPT !.cloneSeen = @ \cup {v}, !.next = k,
                             !.heap[k] = [kind |-> o.kind, p |-> Undef, q |-> Undef]]
             R2 == Invoke(R1, "deepClone", o.p, 0, 0)
             R3 == Invoke([R2 EXCEPT !.heap[k].p = R2.ret], "deepClone", o.q, 0, 0)
         IN  [R3 EXCEPT !.heap[k].q = R3.ret, !.ret = ObjRef(k)]

\* oldValue = deepClone(newValue): a new WeakSet, and new objects in the
\* place of the snapshot that oldValue held
CloneInto(R, base, v) ==
    Invoke([R EXCEPT !.cloneSeen = {}, !.next = base,
                     !.heap = [i \in HeapCells |->
                                 IF i > base /\ i <= base + NUser THEN NoObject ELSE @[i]]],
           "deepClone", v, 0, 0)
Snapshot(R, w, v) == CloneInto(R, Area(w), v)

\* newValue of the watch effect, by the kind of source: a ref or computed is
\* read; a reactive object is deep-cloned with options.deep and passed as it
\* is without
SourceValue(R, w) ==
    IF R.watched[w] = Undef
    THEN Observe(Invoke(R, "readCell", R.source[w], 0, 0), w, R.source[w])
    ELSE IF R.deep[w] THEN CloneInto(R, Scratch, R.watched[w])
    ELSE [R EXCEPT !.ret = R.watched[w]]

\* the clone that was newValue is garbage once the watch effect returns
Collect(R) ==
    [R EXCEPT !.heap = [i \in HeapCells |-> IF i > Scratch THEN NoObject ELSE @[i]]]

\* the body of the watch effect without options.immediate: the callback waits
\* for the second run
WatchFnNoImmediate(R, w) ==
    LET R1       == Observe(Invoke(R, "readCell", R.source[w], 0, 0), w, R.source[w])
        newValue == R1.ret
        R2 == IF R1.initialized[w]
              THEN Pop(Invoke([Push(R1, Null) EXCEPT
                                  !.runs[w] = @ + 1,
                                  !.cbArgs[w] = IF w \in R1.observed THEN <<newValue, R1.oldValue[w]>> ELSE @],
                              "exec", w, R1.fn[w], 1))
              ELSE R1
        R3 == Snapshot(R2, w, newValue)
    IN  IF R1.exc THEN R1
        ELSE IF R2.exc THEN R2
        ELSE [R3 EXCEPT !.oldValue[w] = R3.ret, !.initialized[w] = TRUE]

\* the body of the watch effect without the null sentinel: the callback runs
\* with the watch effect as the tracking effect
WatchFnTracked(R, w) ==
    LET R1       == Observe(Invoke(R, "readCell", R.source[w], 0, 0), w, R.source[w])
        newValue == R1.ret
        R2 == IF R1.initialized[w] \/ R1.immediate[w]
              THEN Invoke([R1 EXCEPT
                              !.runs[w] = @ + 1,
                              !.flushRuns[w] = IF R1.isFlushing /\ w \in R1.observed THEN @ + 1 ELSE @],
                          "exec", w, R1.fn[w], 1)
              ELSE R1
        R3 == Snapshot(R2, w, newValue)
    IN  IF R1.exc THEN R1
        ELSE IF R2.exc THEN R2
        ELSE [R3 EXCEPT !.oldValue[w] = R3.ret, !.initialized[w] = TRUE]

\* oldValue = deepClone(newValue); initialized = true;  R.ret is the clone,
\* unless deepClone threw
KeepSnapshot(R, w, read) ==
    IF R.exc THEN R
    ELSE [R EXCEPT !.oldValue[w] = R.ret, !.initialized[w] = TRUE,
                   !.snap[w].last = IF w \in R.observed THEN read ELSE @]

\* the body of the watch effect: read the source, call back, snapshot
WatchFn(R, w) ==
    LET R1       == SourceValue(R, w)
        newValue == R1.ret
        read     == ContentsOf(R1.heap, newValue)
        R2 == IF R1.initialized[w] \/ R1.immediate[w]
              THEN Pop(Invoke([Push(R1, Null) EXCEPT
                                  !.afterStop = @ \/ R1.stopped[w],
                                  !.runs[w] = @ + 1,
                                  !.flushRuns[w] = IF R1.isFlushing /\ w \in R1.observed THEN @ + 1 ELSE @,
                                  !.cbArgs[w] = IF w \in R1.observed THEN <<newValue, R1.oldValue[w]>> ELSE @,
                                  !.snap[w] = IF w \in R1.observed
                                              THEN [@ EXCEPT !.old = ContentsOf(R1.heap, R1.oldValue[w]),
                                                             !.expected = R1.snap[w].last,
                                                             !.sameRef = IsObject(newValue)
                                                                         /\ R1.oldValue[w] = newValue]
                                              ELSE @],
                              "exec", w, R1.fn[w], 1))
              ELSE R1
        R3 == Snapshot(R2, w, newValue)
    IN  IF R1.exc THEN Collect(R1)
        ELSE IF R2.exc THEN Collect(R2)
        ELSE Collect(KeepSnapshot(R3, w, read))

\* ------------------------------------------------------------------ stop
\* wrapped.stop(), notifier.stop(), the watcher's extended stop(), and the
\* stop of a disposal entry { stop: fn }
EffectStop(R, e) ==
    IF e \in Disposers
    THEN Invoke([R EXCEPT !.disposed[e] = IF @ < 2 THEN @ + 1 ELSE @],
                "exec", e, R.fn[e], 1)
    ELSE LET R1 == IF R.stopped[e] THEN R
                   ELSE [Cleanup(R, e) EXCEPT !.effectQueue = Delete(@, e),
                                              !.stopped[e] = TRUE]
         IN  IF e \in Watchers THEN [R1 EXCEPT !.oldValue[e] = Undef] ELSE R1

\* for (let eff of this.effects) eff.stop();
StopEffects(R, s, i) ==
    IF R.exc \/ i > Len(R.effects[s]) THEN R
    ELSE Invoke(Invoke(R, "effectStop", R.effects[s][i], 0, 0),
                "stopEffects", s, i + 1, 0)

\* for (let child of this.children) child.stop();
StopChildren(R, s, i) ==
    IF R.exc \/ i > Len(R.children[s]) THEN R
    ELSE Invoke(Invoke(R, "scopeStop", R.children[s][i], 0, 0),
                "stopChildren", s, i + 1, 0)

\* EffectScope.stop()
ScopeStop(R, s) ==
    IF R.scopeStopped[s] THEN R
    ELSE LET R1 == Invoke([R EXCEPT !.scopeStopped[s] = TRUE], "stopEffects", s, 1, 0)
             R2 == IF R1.exc THEN R1 ELSE Invoke(R1, "stopChildren", s, 1, 0)
         IN  IF R2.exc THEN R2
             ELSE [R2 EXCEPT !.effects[s] = <<>>, !.children[s] = <<>>]

\* ------------------------------------------------------------- scheduler
\* for (const fn of effects) { if (!fn.stopped) fn(); }
FlushEffects(R, es, i) ==
    IF R.exc \/ i > Len(es) THEN R
    ELSE Invoke(IF R.stopped[es[i]] THEN R ELSE Invoke(R, "callEffect", es[i], 0, 0),
                "flushEffects", es, i + 1, 0)

\* ----------------------------------------------------------- construction
\* construction without the activeScope.add(eff) call
RegisterNowhere(R, e) == R

\* if (activeScope && !activeScope.stopped) activeScope.add(eff)
Register(R, e) ==
    IF R.activeScope # Null /\ ~R.scopeStopped[R.activeScope]
    THEN [R EXCEPT !.effects[R.activeScope] = Append(@, e),
                   !.owner[e] = R.activeScope]
    ELSE R

\* effect(fn, options)
Effect(R, e, body, isSync) ==
    Invoke(Register([R EXCEPT !.created[e] = TRUE, !.fn[e] = body,
                              !.deps[e] = <<>>, !.stopped[e] = FALSE,
                              !.sync[e] = isSync], e),
           "callEffect", e, 0, 0)

\* computed(getter)
Computed(R, c, g) ==
    LET n == NotifierOf(c)
    IN  Recompute(Register([R EXCEPT !.created[n] = TRUE, !.getter[c] = g,
                                     !.dirty[c] = TRUE, !.deps[n] = <<>>,
                                     !.stopped[n] = FALSE, !.sync[n] = TRUE], n), c)

\* watch(source, callback, { deep }) on the reactive proxy source
WatchReactive(R, w, proxy, cb, isDeep) ==
    Effect([R EXCEPT !.watched[w] = proxy, !.deep[w] = isDeep, !.immediate[w] = FALSE,
                     !.oldValue[w] = Undef, !.initialized[w] = FALSE],
           w, cb, FALSE)

\* watch(source, callback, options)
Watch(R, w, src, cb, imm) ==
    Effect([R EXCEPT !.source[w] = src, !.immediate[w] = imm,
                     !.oldValue[w] = Undef, !.initialized[w] = FALSE],
           w, cb, FALSE)

\* onScopeDispose(fn)
OnScopeDispose(R, x, body) ==
    Register([R EXCEPT !.created[x] = TRUE, !.fn[x] = body], x)

\* effectScope(parent): new EffectScope(parent ?? activeScope)
EffectScope(R, s, parent) ==
    LET p == IF parent # Null THEN parent ELSE R.activeScope
        R1 == [R EXCEPT !.scopeCreated[s] = TRUE, !.effects[s] = <<>>,
                        !.children[s] = <<>>, !.scopeStopped[s] = FALSE,
                        !.parentOf[s] = IF p # Null /\ ~R.scopeStopped[p] THEN p ELSE Null]
    IN  IF p # Null THEN [R1 EXCEPT !.children[p] = Append(@, s)] ELSE R1

\* runInScope(scope, fn): the scope swap before fn, and the finally after it
EnterScope(R, s) == [R EXCEPT !.activeScope = s]
LeaveScope(R, prev) == [R EXCEPT !.activeScope = prev]

\* The statements of a function passed to runInScope:
\*   look at the active scope (s: the scope the enclosing call named)
Look(s) == [op |-> "look", s |-> s, body |-> <<>>, catch |-> FALSE]
\*   throw new Error();
Throw == [op |-> "throw", s |-> Null, body |-> <<>>, catch |-> FALSE]
\*   runInScope(s, () => { body }), inside try { } catch { } if catch
Nested(s, body, catch) == [op |-> "runInScope", s |-> s, body |-> body, catch |-> catch]

\* runInScope that restores the active scope only when fn returns
RunInScopeNoFinally(R, s, body) ==
    LET R1 == Invoke(EnterScope(R, s), "execScope", body, 1, 0)
    IN  IF R1.exc THEN R1 ELSE LeaveScope(R1, R.activeScope)

\* runInScope(scope, fn)
RunInScope(R, s, body) ==
    LeaveScope(Invoke(EnterScope(R, s), "execScope", body, 1, 0), R.activeScope)

\* one statement of fn
StepScope(R, ins) ==
    CASE ins.op = "look"  -> [R EXCEPT !.scopeLog = Append(@, << ins.s, R.activeScope >>)]
      [] ins.op = "throw" -> [R EXCEPT !.exc = TRUE]
      [] ins.op = "runInScope" ->
            LET R1 == Invoke(R, "runInScope", ins.s, ins.body, 0)
            IN  IF ins.catch THEN [R1 EXCEPT !.exc = FALSE] ELSE R1

\* the statements of fn, one after the other
ExecScope(R, body, i) ==
    IF R.exc \/ i > Len(body) THEN R
    ELSE Invoke(StepScope(R, body[i]), "execScope", body, i + 1, 0)

\* ------------------------------------------------------------ directives
\* The objects a directive creates while it runs: the next unused scope and
\* the next unused effect.
RowScopes  == << "s2", "s3", "s4" >>
RowEffects == << "e3", "e4", "e5" >>
\* the effects created for rows and branches, and by callbacks
FragmentEffects == {RowEffects[i] : i \in 1..Len(RowEffects)}
FreeScopes(R) == {i \in 1..Len(RowScopes) : ~R.scopeCreated[RowScopes[i]]}
FreeEffects(R) == {i \in 1..Len(RowEffects) : ~R.created[RowEffects[i]]}
NewScopeOf(R) == RowScopes[CHOOSE i \in FreeScopes(R) : \A j \in FreeScopes(R) : i <= j]
NewEffectOf(R) == RowEffects[CHOOSE i \in FreeEffects(R) : \A j \in FreeEffects(R) : i <= j]

\* createIteration, and the show branch of bindIf: a new EffectScope(activeScope),
\* and the scan of the clone inside it, which creates the effect of the one
\* binding the template holds
CreateIteration(R, s, body) ==
    LeaveScope(Effect(EnterScope(EffectScope(R, s, R.activeScope), s),
                      NewEffectOf(R), body, FALSE),
               R.activeScope)

\* for (const scope of iterationScopes) scope.stop();
StopScopes(R, ss, i) ==
    IF R.exc \/ i > Len(ss) THEN R
    ELSE Invoke(Invoke(R, "scopeStop", ss[i], 0, 0), "stopScopes", ss, i + 1, 0)

\* arr.forEach(item => { createIteration(...); iterationScopes.push(scope); })
\* every row shows b.value
CreateRows(R, n, i) ==
    IF R.exc \/ i > n THEN R
    ELSE LET s  == NewScopeOf(R)
             R1 == CreateIteration(R, s, << Read("b") >>)
         IN  Invoke([R1 EXCEPT !.iterationScopes = Append(@, s)],
                    "createRows", n, i + 1, 0)

\* the effect of bindForUnkeyed: the list has c.value rows
RenderForOf(R, e, c) ==
    LET R1 == Observe(Invoke(R, "readCell", c, 0, 0), e, c)
        R2 == Invoke(R1, "stopScopes", R1.iterationScopes, 1, 0)
    IN  IF R1.exc THEN R1
        ELSE IF R2.exc THEN R2
        ELSE Invoke([R2 EXCEPT !.iterationScopes = <<>>], "createRows", R1.ret, 1, 0)

\* the effect of bindIf: the element, which shows a.value, is in the
\* document while c.value is truthy
\* With list = 1 the element holds a data-for list of a.value rows, whose
\* effect starts with no iteration scopes; otherwise it shows a.value.
RenderIfOf(R, e, c, list) ==
    LET R1   == Observe(Invoke(R, "readCell", c, 0, 0), e, c)
        show == R1.ret # 0
        s    == NewScopeOf(R1)
    IN  IF R1.exc THEN R1
        ELSE IF show /\ ~R1.isInserted
        THEN [(IF list = 1
               THEN CreateIteration([R1 EXCEPT !.innerScope = s, !.iterationScopes = <<>>],
                                    s, << RenderFor("a") >>)
               ELSE CreateIteration([R1 EXCEPT !.innerScope = s], s, << Read("a") >>))
                 EXCEPT !.isInserted = TRUE]
        ELSE IF ~show /\ R1.isInserted
        THEN [(IF R1.innerScope # Null
               THEN [Invoke(R1, "scopeStop", R1.innerScope, 0, 0) EXCEPT !.innerScope = Null]
               ELSE R1)
                 EXCEPT !.isInserted = FALSE]
        ELSE R1

\* effect(() => { body }, { sync: isSync }) called from a callback
NestedEffectOf(R, body, isSync) == Effect(R, NewEffectOf(R), body, isSync)

\* the call f(x, y, z)
Invoke(R, f, x, y, z) ==
    CASE f = "trigger"      -> Trigger(R, x)
      [] f = "runSync"      -> RunSync(R, x, y)
      [] f = "callEffect"   -> CallEffect(R, x)
      [] f = "fn"           -> Fn(R, x)
      [] f = "exec"         -> Exec(R, x, y, z)
      [] f = "step"         -> Step(R, x, y)
      [] f = "readCell"     -> ReadCell(R, x)
      [] f = "readAll"      -> ReadAll(R, x, y, z)
      [] f = "refSet"       -> RefSet(R, x, y)
      [] f = "arraySetIndex" -> ArraySetIndex(R, x, y, z)
      [] f = "reactive"     -> Reactive(R, x)
      [] f = "proxyGet"     -> ProxyGet(R, x, y)
      [] f = "proxySet"     -> ProxySet(R, x, y, z)
      [] f = "getPath"      -> GetPath(R, x, y, z)
      [] f = "arrayWrites"  -> ArrayWrites(R, x, y, z)
      [] f = "watchFn"      -> WatchFn(R, x)
      [] f = "effectStop"   -> EffectStop(R, x)
      [] f = "stopEffects"  -> StopEffects(R, x, y)
      [] f = "stopChildren" -> StopChildren(R, x, y)
      [] f = "scopeStop"    -> ScopeStop(R, x)
      [] f = "flushEffects" -> FlushEffects(R, x, y)
      [] f = "renderFor"    -> RenderForOf(R, x, y)
      [] f = "renderIf"     -> RenderIfOf(R, x, y, z)
      [] f = "stopScopes"   -> StopScopes(R, x, y)
      [] f = "createRows"   -> CreateRows(R, x, y)
      [] f = "deepClone"    -> DeepClone(R, x)
      [] f = "effect"       -> NestedEffectOf(R, x, y)
      [] f = "runInScope"   -> RunInScope(R, x, y)
      [] f = "execScope"    -> ExecScope(R, x, y)

\* the while loop without the cap on its iterations
FlushPassNoCap(R) ==
    LET R1 == Invoke([R EXCEPT !.iterations = @ + 1, !.effectQueue = <<>>],
                     "flushEffects", R.effectQueue, 1, 0)
    IN  IF R1.exc THEN [R1 EXCEPT !.isFlushing = FALSE] ELSE R1

\* the clear() before the throw left out
FlushPassKeepsQueue(R) ==
    IF R.iterations + 1 > MAX_FLUSH_ITERATIONS
    THEN [R EXCEPT !.iterations = @ + 1,
                   !.isFlushing = FALSE, !.exc = TRUE, !.loop = TRUE]
    ELSE LET R1 == Invoke([R EXCEPT !.iterations = @ + 1, !.effectQueue = <<>>],
                          "flushEffects", R.effectQueue, 1, 0)
         IN  IF R1.exc THEN [R1 EXCEPT !.isFlushing = FALSE] ELSE R1

\* one pass of the while loop of flushEffectQueue, entered with a non-empty
\* queue; the finally clause runs when the pass throws
FlushPassOf(R) ==
    IF R.iterations + 1 > MAX_FLUSH_ITERATIONS
    THEN [R EXCEPT !.iterations = @ + 1, !.effectQueue = <<>>,
                   !.isFlushing = FALSE, !.exc = TRUE, !.loop = TRUE]
    ELSE LET R1 == Invoke([R EXCEPT !.iterations = @ + 1, !.effectQueue = <<>>],
                          "flushEffects", R.effectQueue, 1, 0)
         IN  IF R1.exc THEN [R1 EXCEPT !.isFlushing = FALSE] ELSE R1

\* the microtask starts: flushEffectQueue up to its while loop
FlushStartOf(R) ==
    [R EXCEPT !.isFlushPending = FALSE, !.isFlushing = TRUE, !.iterations = 0,
              !.microtasks = @ - 1,
              !.hitAtFlush = R.hit, !.hit = NoRuns, !.flushRuns = NoRuns]

\* the while condition fails: the finally clause, and the return
FlushEndOf(R) == [R EXCEPT !.isFlushing = FALSE]

\* ---------------------------------------------------------------- actions
\* Top-level code (a test, an event handler) runs only between microtasks.
AtTopLevel == ~isFlushing

FlushStart ==
    /\ microtasks > 0 /\ ~isFlushing
    /\ Commit(FlushStartOf(Cur), "flushStart")

FlushPass ==
    /\ isFlushing /\ Len(effectQueue) > 0
    /\ Commit(FlushPassOf(Cur), "flushPass")

FlushEnd ==
    /\ isFlushing /\ Len(effectQueue) = 0
    /\ Commit(FlushEndOf(Cur), "flushEnd")

\* r.value = v
SetRef(r, v) ==
    /\ AtTopLevel
    /\ Commit(Invoke(Cur, "refSet", r, v, 0), "set")

\* c.value
GetComputed(c) ==
    /\ AtTopLevel /\ created[NotifierOf(c)]
    /\ Commit(Invoke(Cur, "readCell", c, 0, 0), "get")

\* c.value = v
SetComputed(c, v) ==
    /\ AtTopLevel /\ created[NotifierOf(c)]
    /\ Commit(ComputedSet(Cur, c, v), "setComputed")

\* runner.stop()
Stop(e) ==
    /\ AtTopLevel /\ created[e]
    /\ Commit(Invoke(Cur, "effectStop", e, 0, 0), "stop")

\* runner()
Run(e) ==
    /\ AtTopLevel /\ created[e]
    /\ Commit(Invoke(Cur, "callEffect", e, 0, 0), "run")

\* ------------------------------------------------------- the core scenario
\* const a = ref(0), b = ref(0);
\* const c = computed(() => a.value + b.value);
\* and two batched effects created at any later moment:
\*   e1 = effect(() => { a.value; b.value; })
\*   e3 = effect(() => { a.value ? c.value : a.value; })
CoreEffects == {"e1", "e3"}
CoreFn(e) ==
    CASE e = "e1" -> << Read("a"), Read("b") >>
      [] e = "e3" -> << ReadSel("a", "c", "a") >>

Blank ==
    [ val |-> [r \in Refs |-> 0], subs |-> [c \in Deps |-> <<>>],
      created |-> [e \in Effects |-> FALSE], fn |-> [e \in Effects |-> <<>>],
      deps |-> [e \in Effects |-> <<>>], stopped |-> [e \in Effects |-> FALSE],
      sync |-> [e \in Effects |-> FALSE], effectQueue |-> <<>>,
      isFlushing |-> FALSE, isFlushPending |-> FALSE, iterations |-> 0,
      microtasks |-> 0,
      activeEffect |-> Null, effectStack |-> <<>>,
      getter |-> [c \in Computeds |-> <<>>], cached |-> [c \in Computeds |-> Undef],
      dirty |-> [c \in Computeds |-> FALSE], source |-> [w \in Watchers |-> Null],
      immediate |-> [w \in Watchers |-> FALSE], oldValue |-> [w \in Watchers |-> Undef],
      initialized |-> [w \in Watchers |-> FALSE], activeScope |-> Null,
      scopeCreated |-> [s \in Scopes |-> FALSE], effects |-> [s \in Scopes |-> <<>>],
      children |-> [s \in Scopes |-> <<>>], scopeStopped |-> [s \in Scopes |-> FALSE],
      parentOf |-> [s \in Scopes |-> Null], seen |-> [e \in Effects |-> NotRead],
      runs |-> NoRuns, flushRuns |-> NoRuns, hit |-> NoRuns, hitAtFlush |-> NoRuns,
      calls |-> NoCalls, reads |-> NoCalls, depChanged |-> [c \in Computeds |-> FALSE],
      staleRead |-> FALSE, lazyBroken |-> FALSE, disposed |-> [x \in Disposers |-> 0],
      cbArgs |-> [w \in Watchers |-> <<Undef, Undef>>],
      iterationScopes |-> <<>>, isInserted |-> FALSE, innerScope |-> Null,
      owner |-> [e \in Effects |-> Null], afterStop |-> FALSE, observed |-> {},
      heap |-> [i \in HeapCells |-> NoObject], scopeLog |-> <<>>, mounted |-> FALSE,
      vSubs |-> [i \in HeapCells |-> Null], target |-> [k \in ProxyIds |-> Undef],
      reactiveMap |-> [t \in Targets |-> Undef], handed |-> [t \in Targets |-> {}],
      watched |-> [w \in Watchers |-> Undef], deep |-> [w \in Watchers |-> FALSE],
      snap |-> [w \in Watchers |-> [last |-> <<>>, old |-> <<>>, expected |-> <<>>,
                                    sameRef |-> FALSE]],
      ret |-> Undef, exc |-> FALSE, loop |-> FALSE, overflow |-> FALSE,
      cloneSeen |-> {}, next |-> 0 ]

InitFrom(R) ==
    /\ val = R.val /\ subs = R.subs /\ created = R.created /\ fn = R.fn
    /\ deps = R.deps /\ stopped = R.stopped /\ sync = R.sync
    /\ effectQueue = R.effectQueue /\ isFlushing = R.isFlushing
    /\ isFlushPending = R.isFlushPending /\ iterations = R.iterations
    /\ microtasks = R.microtasks
    /\ activeEffect = R.activeEffect /\ effectStack = R.effectStack
    /\ getter = R.getter /\ cached = R.cached /\ dirty = R.dirty
    /\ source = R.source /\ immediate = R.immediate /\ oldValue = R.oldValue
    /\ initialized = R.initialized /\ activeScope = R.activeScope
    /\ scopeCreated = R.scopeCreated /\ effects = R.effects
    /\ children = R.children /\ scopeStopped = R.scopeStopped
    /\ parentOf = R.parentOf /\ seen = R.seen /\ runs = NoRuns
    /\ flushRuns = R.flushRuns /\ hit = R.hit /\ hitAtFlush = R.hitAtFlush
    /\ calls = NoCalls /\ reads = NoCalls /\ depChanged = R.depChanged
    /\ staleRead = FALSE /\ lazyBroken = FALSE
    /\ disposed = R.disposed /\ cbArgs = R.cbArgs
    /\ lastOp = "init"
    /\ error = "none"
    /\ iterationScopes = R.iterationScopes /\ isInserted = R.isInserted
    /\ innerScope = R.innerScope /\ owner = R.owner /\ afterStop = R.afterStop
    /\ observed = R.observed /\ heap = R.heap /\ snap = R.snap
    /\ scopeLog = <<>> /\ mounted = R.mounted
    /\ vSubs = R.vSubs /\ target = R.target /\ reactiveMap = R.reactiveMap
    /\ handed = R.handed /\ watched = R.watched /\ deep = R.deep

Init == InitFrom(Computed([Blank EXCEPT !.observed = CoreEffects], "c", <<"a", "b">>))

\* effect(fn, options) at top level
NewEffect(e) ==
    /\ AtTopLevel /\ ~created[e]
    /\ Commit(Effect(Cur, e, CoreFn(e), FALSE), "effect")

Next ==
    \/ \E r \in Refs, v \in Values : SetRef(r, v)
    \/ GetComputed("c")
    \/ \E e \in CoreEffects : NewEffect(e)
    \/ \E e \in CoreEffects : Stop(e)
    \/ \E e \in CoreEffects : Run(e)
    \/ FlushStart
    \/ FlushPass
    \/ FlushEnd

Spec == Init /\ [][Next]_vars

\* the value a read of the cell returns when every computed is fresh
CurrentValue(cell) == FreshOf(Cur, cell)

\* the last run of e saw, in every cell it read, the value the cell has now
SeenCurrent(e) ==
    \A cell \in Cells : seen[e][cell] # Undef => seen[e][cell] = CurrentValue(cell)

\* C1 (batching): when a flush returns, every batched effect that is not
\* stopped and whose cells were written k >= 1 times since the previous flush
\* has run exactly once in this flush, and that run read the values the
\* cells hold now.
C1_Batching ==
    lastOp = "flushEnd" =>
        \A e \in Effects :
            (hitAtFlush[e] >= 1 /\ ~stopped[e]) =>
                (flushRuns[e] = 1 /\ SeenCurrent(e))

\* e1 was written to at least twice (a and b, or one of them twice) before
\* the flush, and ran once
C1_Witness ==
    /\ lastOp = "flushEnd" /\ hitAtFlush["e1"] >= 2 /\ ~stopped["e1"]
    /\ flushRuns["e1"] = 1 /\ val["a"] = 1 /\ val["b"] = 1
    /\ seen["e1"]["a"] = 1 /\ seen["e1"]["b"] = 1

\* The core scenario with both effects created at the start and, from then
\* on, writes, stops and flushes.  The flush callback is a microtask: once
\* queued it runs, and the loop of a running flush goes on.
InitLive ==
    InitFrom(Effect(Effect(Computed([Blank EXCEPT !.observed = CoreEffects],
                                    "c", <<"a", "b">>),
                           "e1", CoreFn("e1"), FALSE),
                    "e3", CoreFn("e3"), FALSE))

NextLive ==
    \/ \E r \in Refs, v \in Values : SetRef(r, v)
    \/ \E e \in CoreEffects : Stop(e)
    \/ FlushStart
    \/ FlushPass
    \/ FlushEnd

\* The three steps of a flush, each told by its guard and by the variables
\* it always changes: a step of the model is a FlushStart, FlushPass or
\* FlushEnd step exactly if it is a step of this kind.
StartEndVars == << isFlushing, lastOp >>
PassVars == << iterations, lastOp >>
FlushStartStep ==
    /\ microtasks > 0 /\ ~isFlushing
    /\ isFlushing' = TRUE /\ lastOp' = "flushStart"
FlushPassStep ==
    /\ isFlushing /\ Len(effectQueue) > 0
    /\ iterations' = iterations + 1 /\ lastOp' = "flushPass"
FlushEndStep ==
    /\ isFlushing /\ Len(effectQueue) = 0
    /\ isFlushing' = FALSE /\ lastOp' = "flushEnd"

FairSpec ==
    /\ InitLive /\ [][NextLive]_vars
    /\ WF_StartEndVars(FlushStartStep)
    /\ WF_PassVars(FlushPassStep)
    /\ WF_StartEndVars(FlushEndStep)

Quiescent == effectQueue = <<>> /\ ~isFlushing

\* C7 (re-run on change): a value-changing write to a ref is eventually
\* followed by a run of each batched effect that is subscribed to the ref or
\* to a computed reading it, unless the effect is stopped first; and once
\* the queue is empty, the last run of each live effect has read the value
\* each of its cells holds now.
C7_RerunOnChange ==
    /\ \A e \in CoreEffects : (hit[e] >= 1) ~> (runs[e] >= 1 \/ stopped[e])
    /\ [](Quiescent => \A e \in CoreEffects :
                          (created[e] /\ ~stopped[e]) => SeenCurrent(e))

\* a flush has just run e3 after a write to b alone, which e3 reads only
\* through the computed c
C7_Witness ==
    /\ lastOp = "flushEnd" /\ ~stopped["e3"] /\ flushRuns["e3"] = 1
    /\ hitAtFlush["e3"] = 1 /\ val["a"] = 1 /\ val["b"] = 1
    /\ seen["e3"]["a"] = 1 /\ seen["e3"]["c"] = 2
    /\ seen["e1"]["b"] = 1 /\ Quiescent

SubscribedTo(e) == {c \in Cells : InSeq(e, subs[c])}
ReadBy(e) == {c \in Cells : seen[e][c] # Undef}

\* C10 (stale-dependency pruning): after each run of an effect, the effect
\* is subscribed to exactly the cells it read during that run, and a write
\* to b, when the effect is subscribed neither to b nor to the computed
\* reading b, neither runs nor enqueues it.
C10_Pruning ==
    /\ [](\A e \in CoreEffects :
            (created[e] /\ ~stopped[e]) =>
                /\ SubscribedTo(e) = ReadBy(e)
                /\ {deps[e][i] : i \in 1..Len(deps[e])} = ReadBy(e))
    /\ [][\A e \in CoreEffects :
            (/\ lastOp' = "set" /\ val'["b"] # val["b"]
             /\ SubscribedTo(e) \cap {"b", "c"} = {}) =>
                /\ runs'[e] = 0
                /\ InSeq(e, effectQueue') => InSeq(e, effectQueue)]_vars

\* the flush that has just returned ran e3 once, after one write to a cell
\* it was subscribed to; the run read a = 0 and not c, so the run before
\* read a # 0 and c, and e3 has left c's dependency set
C10_Witness ==
    /\ lastOp = "flushEnd" /\ ~stopped["e3"] /\ flushRuns["e3"] = 1
    /\ hitAtFlush["e3"] = 1 /\ seen["e3"]["a"] = 0 /\ seen["e3"]["c"] = Undef
    /\ SubscribedTo("e3") = {"a"} /\ Len(subs["c"]) = 0

\* how many times x occurs in the sequence s
Count(s, x) == Cardinality({i \in 1..Len(s) : s[i] = x})

\* C11 (idempotent tracking, index consistency): in every state an effect is
\* a member of a cell's dependency set exactly if the set is in the effect's
\* deps, and it is there at most once; a run that reads the same cell twice
\* leaves the effect once in the cell's dependency set and the set once in
\* the effect's deps.
C11_TrackOnce ==
    \A e \in Effects, c \in Cells :
        /\ InSeq(e, subs[c]) <=> InSeq(c, deps[e])
        /\ Count(deps[e], c) <= 1
        /\ Count(subs[c], e) <= 1

\* e3 has just run with a.value falsy, so that its callback read a twice,
\* next to e1 which is subscribed to a as well
C11_Witness ==
    /\ lastOp \in {"run", "flushPass"} /\ runs["e3"] = 1
    /\ seen["e3"]["a"] = 0 /\ seen["e3"]["c"] = Undef
    /\ deps["e3"] = << "a" >> /\ Count(subs["a"], "e3") = 1
    /\ Len(subs["a"]) = 2

\* --------------------------------------------------- the computed scenario
\* const a = ref(0), b = ref(0);
\* const c = computed(() => a.value + b.value);
\* const d = computed(() => c.value + b.value);
\* and, created at any later moment,
\*   e1 = effect(() => { d.value; })
\*   e2 = effect(() => { a.value; d.value; }, { sync: true })
CompEffects == {"e1", "e2"}
CompFn(e) ==
    CASE e = "e1" -> << Read("d") >>
      [] e = "e2" -> << Read("a"), Read("d") >>
CompSync(e) == e = "e2"

InitComputed ==
    InitFrom(Computed(Computed(Blank, "c", <<"a", "b">>), "d", <<"c", "b">>))

NewEffectC(e) ==
    /\ AtTopLevel /\ ~created[e]
    /\ Commit(Effect(Cur, e, CompFn(e), CompSync(e)), "effect")

NextComputed ==
    \/ \E r \in Refs, v \in Values : SetRef(r, v)
    \/ \E c \in Computeds : GetComputed(c)
    \/ \E e \in CompEffects : NewEffectC(e)
    \/ FlushStart
    \/ FlushPass
    \/ FlushEnd

ComputedSpec == InitComputed /\ [][NextComputed]_vars

\* C2 (computed freshness): no read of a non-stopped computed's .value
\* returns anything but the getter's result on the values its dependencies
\* hold at the moment of the read.
C2_Freshness == ~staleRead

\* C3 (computed laziness): a read of a non-stopped computed's .value runs
\* the getter exactly once when a dependency has changed since the getter
\* last ran, and not at all otherwise; and outside of construction the
\* getter never runs more often than .value is read.
C3_Laziness ==
    /\ ~lazyBroken
    /\ \A c \in Computeds : calls[c] <= reads[c]

\* e is subscribed to the ref r, or to a computed whose getter reads r
ReactsTo(e, r) ==
    \/ InSeq(e, subs[r])
    \/ \E c \in Computeds : InSeq(e, subs[c]) /\ r \in RefsOf(Cur, c)

\* C17 (sync before batched): when a top-level write that changes a ref's
\* value returns, every computed whose notifier was subscribed to the ref is
\* dirty or has been recomputed, every sync effect that was subscribed to
\* the ref or to a computed reading it has run exactly once, and no batched
\* effect's callback has run.
C17_SyncBeforeBatched ==
    [][(lastOp' = "set" /\ val' # val) =>
         \A r \in Refs : val'[r] # val[r] =>
            /\ \A c \in Computeds :
                  InSeq(NotifierOf(c), subs[r]) => (dirty'[c] \/ calls'[c] >= 1)
            /\ \A e \in UserEffects :
                  (created[e] /\ ReactsTo(e, r)) =>
                      IF sync[e] THEN runs'[e] = 1 ELSE runs'[e] = 0]_vars

\* ------------------------------------------------------ the scope scenario
\* const a = ref(0), b = ref(0);
\* s1 = effectScope(); s2 = effectScope(s1), or s2 = runInScope(s1, () => effectScope());
\* and at any moment, inside runInScope(s1, ...):
\*   w1 = watch(a, () => { if (a.value === 1) w1.stop(); })
\*   c  = computed(() => a.value + b.value)
\* inside runInScope(s2, ...):
\*   e2 = effect(() => { if (a.value === 1) e2.stop(); a.value; })
\*   onScopeDispose(() => {})
\* e2 is created while a.value is 0: its first run cannot use e2
ScopeScopes == {"s1", "s2"}
ScopeItems == {"e2", "w1", "nc", "x1"}
Home(i) == IF i \in {"w1", "nc"} THEN "s1" ELSE "s2"

NewScope(s, p, explicit) ==
    /\ AtTopLevel /\ ~scopeCreated[s]
    /\ IF s = "s1" THEN p = Null ELSE p = "s1" /\ scopeCreated[p]
    /\ Commit(IF explicit \/ p = Null
              THEN EffectScope(Cur, s, p)
              ELSE LeaveScope(EffectScope(EnterScope(Cur, p), s, Null), Null),
              "scope")

CreateItem(R, i) ==
    CASE i = "e2" -> Effect(R, "e2", << StopIf("a", 1), Read("a") >>, FALSE)
      [] i = "w1" -> Watch(R, "w1", "a", << StopIf("a", 1) >>, FALSE)
      [] i = "nc" -> Computed(R, "c", << "a", "b" >>)
      [] i = "x1" -> OnScopeDispose(R, "x1", <<>>)

\* runInScope(s, () => ...)
NewInScope(i) ==
    /\ AtTopLevel /\ ~created[i] /\ scopeCreated[Home(i)]
    /\ i = "e2" => val["a"] = 0
    /\ Commit(LeaveScope(CreateItem(EnterScope(Cur, Home(i)), i), Null), "new")

\* s.stop()
StopScope(s) ==
    /\ AtTopLevel /\ scopeCreated[s]
    /\ Commit(Invoke(Cur, "scopeStop", s, 0, 0), "stopScope")

NextScope ==
    \/ \E v \in Values : SetRef("a", v)
    \/ GetComputed("c")
    \/ \E s \in ScopeScopes, p \in ScopeScopes \cup {Null}, x \in BOOLEAN : NewScope(s, p, x)
    \/ \E i \in ScopeItems : NewInScope(i)
    \/ \E s \in ScopeScopes : StopScope(s)
    \/ \E e \in {"e2", "w1"} : Stop(e)
    \/ \E e \in {"e2", "w1"} : Run(e)
    \/ FlushStart
    \/ FlushPass
    \/ FlushEnd

InitScope == InitFrom(Blank)

ScopeSpec == InitScope /\ [][NextScope]_vars

RECURSIVE Within(_, _)
Within(s, t) == s = t \/ (parentOf[s] # Null /\ Within(parentOf[s], t))

Subscribed(e) == \E c \in Cells : InSeq(e, subs[c])

\* C5 (scope bulk teardown): after scope.stop(), every effect, computed
\* notifier and disposal callback registered in the scope or in a scope
\* below it is stopped, and a write to a dependency neither runs nor
\* enqueues it: it is in no dependency set and not in the queue.
C5_ScopeTeardown ==
    \A t \in Scopes, e \in Effects :
        (scopeStopped[t] /\ owner[e] # Null /\ Within(owner[e], t)) =>
            /\ IF e \in Disposers THEN disposed[e] >= 1 ELSE stopped[e]
            /\ ~InSeq(e, effectQueue)
            /\ ~Subscribed(e)
            /\ ~afterStop

\* the state of the program, without the history variables
ProgramState ==
    << val, subs, created, fn, deps, stopped, sync, effectQueue, isFlushing,
       isFlushPending, activeEffect, effectStack, getter, cached, dirty,
       source, immediate, oldValue, initialized, activeScope, scopeCreated,
       effects, children, scopeStopped, disposed >>

\* a stop() call on an effect, a watcher or a scope that was stopped already
SecondStop ==
    \/ lastOp' = "stop" /\ stopped' = stopped
    \/ lastOp' = "stopScope" /\ scopeStopped' = scopeStopped

\* C9 (idempotent stop): a second stop() on an effect, a watcher or a scope
\* changes no state and raises no error, and no onScopeDispose callback is
\* invoked more than once.
C9_IdempotentStop ==
    /\ [][SecondStop => (ProgramState' = ProgramState /\ error' = "none")]_vars
    /\ [](\A x \in Disposers : disposed[x] <= 1)

\* the effect(), watch() and computed() calls of the scenario
Constructed == {"e2", "w1", "nc"}

C34_StoppedStaysEmpty ==
    \A s \in Scopes :
        scopeStopped[s] => (effects[s] = <<>> /\ children[s] = <<>>)

\* C31: an effect or computed notifier whose stopped flag is true is a
\* member of no dependency set and its deps list is empty, also when it
\* stopped itself, or the scope that owns it, in the middle of its own run.
C31_StoppedUnsubscribed ==
    \A e \in Effects :
       stopped[e] => /\ deps[e] = <<>>
                     /\ \A c \in Deps : ~InSeq(e, subs[c])

\* C21 (trigger excludes stopped effects): no callback is invoked after its
\* effect's stop() has returned, and the scheduler queue holds no effect
\* whose stopped flag is true (stop() removes its effect from the queue, so
\* a stopped member is one that trigger inserted while the flag was set).
C21_TriggerExcludesStopped ==
    /\ ~afterStop
    /\ \A i \in 1..Len(effectQueue) : ~stopped[effectQueue[i]]

\* ------------------------------------------------ the two-watcher scenario
\* const a = ref(0), b = ref(0);
\* either  watch(a, () => { b.value++; });
\*         watch(b, () => { a.value++; });
\* or      watch(a, () => { if (b.value < 5) b.value++; });
\*         watch(b, () => { if (a.value < 5) a.value++; });
\* Top-level code writes to a and b as long as both are at most Limit.
NewWatchers(guarded) ==
    /\ AtTopLevel /\ ~created["w1"]
    /\ Commit(Watch(Watch(Cur, "w1", "a",
                          IF guarded THEN << IncIf("b", Limit) >> ELSE << Inc("b") >>,
                          FALSE),
                    "w2", "b",
                    IF guarded THEN << IncIf("a", Limit) >> ELSE << Inc("a") >>,
                    FALSE),
              "new")

SetSmall(r, v) ==
    /\ \A q \in Refs : val[q] <= Limit
    /\ SetRef(r, v)

NextLoop ==
    \/ \E g \in BOOLEAN : NewWatchers(g)
    \/ \E r \in Refs, v \in Values : SetSmall(r, v)
    \/ \E w \in Watchers : Stop(w)
    \/ FlushStart
    \/ FlushPass
    \/ FlushEnd

InitLoop == InitFrom(Blank)

LoopSpec ==
    /\ InitLoop /\ [][NextLoop]_vars
    /\ WF_StartEndVars(FlushStartStep)
    /\ WF_PassVars(FlushPassStep)
    /\ WF_StartEndVars(FlushEndStep)

\* both watchers are live and increment without a guard
Unguarded ==
    /\ created["w1"] /\ ~stopped["w1"] /\ ~stopped["w2"]
    /\ fn["w1"] = << Inc("b") >>
Guarded == created["w1"] /\ fn["w1"] = << IncIf("b", Limit) >>

\* C8 (flush termination): every flush terminates; it returns with an empty
\* queue after at most MAX_FLUSH_ITERATIONS passes, or it finds the queue
\* non-empty after MAX_FLUSH_ITERATIONS passes, clears it and raises the
\* loop error.  With the two unguarded watchers a flush ends with the error;
\* with the two guarded ones it returns without error.
C8_FlushTermination ==
    /\ isFlushing ~> ~isFlushing
    /\ [](isFlushing => iterations <= MAX_FLUSH_ITERATIONS)
    /\ [](lastOp = "flushEnd" =>
            /\ effectQueue = <<>> /\ error = "none" /\ ~isFlushing
            /\ iterations <= MAX_FLUSH_ITERATIONS)
    /\ [](error = "loop" =>
            /\ lastOp = "flushPass" /\ effectQueue = <<>> /\ ~isFlushing
            /\ iterations = MAX_FLUSH_ITERATIONS + 1)
    /\ (isFlushing /\ Unguarded) ~> (error = "loop")
    /\ [](Unguarded => lastOp # "flushEnd")
    /\ [](Guarded => error = "none")
    /\ (isFlushing /\ Guarded) ~> (lastOp = "flushEnd")

\* the flush of the unguarded watchers has just raised the loop error
C8_Witness ==
    /\ error = "loop" /\ Unguarded /\ iterations = MAX_FLUSH_ITERATIONS + 1
    /\ val["a"] + val["b"] >= MAX_FLUSH_ITERATIONS

\* ------------------------------------------------ the recovery scenario
\* The two watchers as above; after a flush has ended with the loop error
\* top-level code goes on writing to a and b (as long as both are at most
\* MAX_FLUSH_ITERATIONS) and stopping watchers.
\* the last flush ended with the loop error and no flush has started since
AfterLoop == ~isFlushing /\ iterations = MAX_FLUSH_ITERATIONS + 1

SetAfterLoop(r, v) ==
    /\ AfterLoop
    /\ \A q \in Refs : val[q] <= MAX_FLUSH_ITERATIONS
    /\ SetRef(r, v)

NextRecover ==
    \/ \E g \in BOOLEAN : NewWatchers(g)
    \/ \E r \in Refs, v \in Values : SetSmall(r, v)
    \/ \E r \in Refs, v \in Values : SetAfterLoop(r, v)
    \/ \E w \in Watchers : Stop(w)
    \/ FlushStart
    \/ FlushPass
    \/ FlushEnd

RecoverSpec ==
    /\ InitLoop /\ [][NextRecover]_vars
    /\ WF_StartEndVars(FlushStartStep)
    /\ WF_PassVars(FlushPassStep)
    /\ WF_StartEndVars(FlushEndStep)

\* C35 (loop-guard recovery): when the flush raises the loop error, the
\* queue is empty, isFlushing and isFlushPending are false and exactly
\* MAX_FLUSH_ITERATIONS passes have been executed; afterwards a trigger that
\* queues a batched effect schedules a new flush, and that effect runs in it
\* unless it is stopped first.
C35_LoopRecovery ==
    /\ [](error = "loop" =>
            /\ effectQueue = <<>> /\ ~isFlushing /\ ~isFlushPending
            /\ lastOp = "flushPass" /\ iterations = MAX_FLUSH_ITERATIONS + 1)
    /\ []((AfterLoop /\ effectQueue # <<>>) => isFlushPending)
    /\ \A w \in Watchers :
          (AfterLoop /\ InSeq(w, effectQueue)) ~> (runs[w] > 0 \/ stopped[w])

\* after a loop error a write has queued w1, and w1 has run in the first
\* pass of the new flush
C35_Witness ==
    /\ isFlushing /\ iterations = 1 /\ lastOp = "flushPass"
    /\ runs["w1"] = 1
    /\ val["a"] + val["b"] >= MAX_FLUSH_ITERATIONS

\* C36 (single flush in flight): at most one flushEffectQueue callback is
\* scheduled and not yet started, it is scheduled exactly while
\* isFlushPending is true, and none is scheduled while a flush is executing:
\* the effects enqueued by a running flush schedule no callback.
C36_SingleFlush ==
    /\ microtasks <= 1
    /\ microtasks = 1 <=> isFlushPending
    /\ isFlushing => microtasks = 0

\* a pass of a running flush has just enqueued a watcher, and no callback
\* is scheduled
C36_Witness ==
    /\ isFlushing /\ lastOp = "flushPass" /\ effectQueue # <<>>
    /\ microtasks = 0

\* -------------------------------------------------- the snapshot scenario
\* const o1 = {}, o2 = [];
\* const a = ref(0);
\* created at any moment:  w1 = watch(a, () => {})
\* Top-level code assigns numbers and the two objects to a.value, and
\* writes 0 and the two objects into the members p and q of o1 and into
\* the first element of o2 (plain writes such as o1.p = o2, which trigger
\* nothing).
SnapObjects == {1, 2}
SnapRefs == {ObjRef(i) : i \in SnapObjects}
KindOf(i) == IF i = 1 THEN "object" ELSE "array"
Members(o) == IF o = 1 THEN {"p", "q"} ELSE {"p"}
MemberValues == {0} \cup SnapRefs

InitSnapshot ==
    InitFrom([Blank EXCEPT !.observed = {"w1"},
                           !.heap = [i \in HeapCells |->
                                       IF i \in SnapObjects
                                       THEN [kind |-> KindOf(i), p |-> Undef, q |-> Undef]
                                       ELSE NoObject]])

NewWatch ==
    /\ AtTopLevel /\ ~created["w1"]
    /\ Commit(Watch(Cur, "w1", "a", <<>>, FALSE), "new")

\* o.p = v, o.q = v
SetMember(o, m, v) ==
    /\ AtTopLevel
    /\ Commit(IF m = "p" THEN [Cur EXCEPT !.heap[o].p = v]
                         ELSE [Cur EXCEPT !.heap[o].q = v], "member")

NextSnapshot ==
    \/ \E v \in Values \cup SnapRefs : SetRef("a", v)
    \/ \E o \in SnapObjects, v \in MemberValues : \E m \in Members(o) : SetMember(o, m, v)
    \/ NewWatch
    \/ FlushStart
    \/ FlushPass
    \/ FlushEnd

SnapshotSpec == InitSnapshot /\ [][NextSnapshot]_vars

\* C12 (watch old/new values): whenever the callback has been invoked,
\* newValue is the value the source holds, and if the value the watcher read
\* on its previous run was acyclic then oldValue has the contents that value
\* had at that run and is not the object that newValue is.
C12_WatchValues ==
    \A w \in Watchers :
        (w \in observed /\ runs[w] >= 1) =>
            /\ cbArgs[w][1] = val[source[w]]
            /\ IsAcyclic(snap[w].expected) =>
                   (snap[w].old = snap[w].expected /\ ~snap[w].sameRef)

\* ---------------------------------------------------- the watch scenario
\* const a = ref(0), b = ref(0);
\* created at any moment, with or without immediate, the nested effect
\* sync or batched:
\*   w1 = watch(a, () => { effect(() => { b.value; }, { sync }); b.value++; },
\*              { immediate })
\* Top-level code writes to a and stops the watcher.  Every invocation of
\* the callback creates an effect, and a is written and the watcher created
\* while an effect is left to create.
NewWatcher(imm, isSync) ==
    /\ AtTopLevel /\ ~created["w1"]
    /\ Commit(Watch(Cur, "w1", "a", << NestedEffect("b", isSync), Inc("b") >>, imm), "new")

SetWatched(v) ==
    /\ FreeEffects(Cur) # {}
    /\ SetRef("a", v)

NextWatch ==
    \/ \E imm, isSync \in BOOLEAN : NewWatcher(imm, isSync)
    \/ \E v \in Values : SetWatched(v)
    \/ Stop("w1")
    \/ FlushStart
    \/ FlushPass
    \/ FlushEnd

InitWatch == InitFrom([Blank EXCEPT !.observed = {"w1"}])

WatchSpec == InitWatch /\ [][NextWatch]_vars

\* C13 (watch immediate): watch() with immediate invokes the callback once,
\* with the source's value and undefined, before watch() returns; without
\* immediate watch() does not invoke it.  After creation the callback is
\* invoked by flushes only: a write that changes the source queues the live
\* watcher, and the flush pass that finds it queued invokes the callback
\* once.
C13_Immediate ==
    /\ [](lastOp = "new" =>
            IF immediate["w1"]
            THEN runs["w1"] = 1 /\ cbArgs["w1"] = << val["a"], Undef >>
            ELSE runs["w1"] = 0)
    /\ [][(runs'["w1"] >= 1 /\ lastOp' # "new") =>
            (lastOp' = "flushPass" /\ InSeq("w1", effectQueue))]_vars
    /\ [][(lastOp' = "set" /\ val'["a"] # val["a"] /\ created["w1"] /\ ~stopped["w1"]) =>
            InSeq("w1", effectQueue')]_vars
    /\ [][(lastOp' = "flushPass" /\ InSeq("w1", effectQueue) /\ ~stopped["w1"]) =>
            (runs'["w1"] = 1 /\ cbArgs'["w1"] = << val["a"], oldValue["w1"] >>)]_vars

\* watch() with immediate has just returned, while a.value was not 0
C13_Witness ==
    /\ lastOp = "new" /\ immediate["w1"] /\ runs["w1"] = 1
    /\ val["a"] = 1 /\ cbArgs["w1"] = << 1, Undef >>
    /\ val["b"] = 1 /\ oldValue["w1"] = 1

\* C14 (watch callback is untracked): the watcher is subscribed to its
\* source and to nothing else, although its callback reads b, after having
\* created and run a nested effect that reads b; the callback's write to b
\* does not queue the watcher, and the watcher's callback runs at most once
\* in a flush.
C14_Untracked ==
    /\ [](\A c \in Cells \ {"a"} : ~InSeq("w1", subs[c]) /\ ~InSeq(c, deps["w1"]))
    /\ [][(lastOp' \in {"flushPass", "new"} /\ runs'["w1"] >= 1) =>
            (val'["b"] = val["b"] + 1 /\ ~InSeq("w1", effectQueue'))]_vars
    /\ [](lastOp = "flushEnd" => (flushRuns["w1"] <= 1 /\ effectQueue = <<>>))

\* the flush that has just returned invoked the callback once; the callback
\* has incremented b for the second time, and the two nested effects it has
\* created are subscribed to b
C14_Witness ==
    /\ lastOp = "flushEnd" /\ flushRuns["w1"] = 1 /\ val["b"] = 2
    /\ SubscribedTo("w1") = {"a"} /\ deps["w1"] = << "a" >>
    /\ Len(subs["b"]) = 2 /\ ~stopped["w1"]

\* ----------------------------------------------- the runInScope scenario
\* const s1 = effectScope(), s2 = effectScope(), s3 = effectScope();
\* Top-level code stops scopes and calls, for any three of the scopes,
\*   runInScope(o, () => {
\*       look(o);
\*       runInScope(m, () => {                    // in try/catch or not
\*           look(m);
\*           runInScope(i, () => { look(i); });   // in try/catch or not
\*           look(m);
\*       });
\*       look(o);
\*   });
\* where one of the three functions, or none, throws before it returns.
RunScopes == {"s1", "s2", "s3"}
ThrowIn(throws, level) == IF throws = level THEN << Throw >> ELSE <<>>
Body(o, m, i, throws, catch1, catch2) ==
    << Look(o),
       Nested(m, << Look(m),
                    Nested(i, << Look(i) >> \o ThrowIn(throws, 3), catch2),
                    Look(m) >> \o ThrowIn(throws, 2),
              catch1),
       Look(o) >> \o ThrowIn(throws, 1)

RunNested(o, m, i, throws, catch1, catch2) ==
    /\ AtTopLevel
    /\ Commit(RunInScope(Cur, o, Body(o, m, i, throws, catch1, catch2)), "runInScope")

InitRun ==
    InitFrom(EffectScope(EffectScope(EffectScope(Blank, "s1", Null), "s2", Null), "s3", Null))

NextRun ==
    \/ \E o, m, i \in RunScopes, throws \in 0..3, c1, c2 \in BOOLEAN :
          RunNested(o, m, i, throws, c1, c2)
    \/ \E s \in RunScopes : StopScope(s)

RunSpec == InitRun /\ [][NextRun]_vars

\* C15 (runInScope): every statement of a function passed to runInScope
\* finds the scope of its call as the active scope, also after a nested
\* runInScope call has returned or has thrown; and when the outermost call
\* is over, by return or by exception, the active scope is what it was
\* before the call.
C15_RunInScope ==
    /\ [](\A k \in 1..Len(scopeLog) : scopeLog[k][1] = scopeLog[k][2])
    /\ [][lastOp' = "runInScope" => activeScope' = activeScope]_vars

\* the innermost function has thrown, the middle one has caught it, and the
\* five looks found s1, s2, s3, s2, s1
C15_Witness ==
    /\ lastOp = "runInScope" /\ error = "none" /\ activeScope = Null
    /\ scopeLog = << <<"s1", "s1">>, <<"s2", "s2">>, <<"s3", "s3">>,
                      <<"s2", "s2">>, <<"s1", "s1">> >>
    /\ scopeStopped["s2"]

\* ---------------------------------------------------- the stack scenario
\* const a = ref(0), b = ref(0);
\* const c = computed(() => a.value + b.value);
\* created at any moment:
\*   e1 = effect(() => {
\*       try { effect(() => { if (a.value === 1) throw new Error(); }); } catch {}
\*       c.value; b.value;
\*   })
\*   e2 = effect(() => { if (b.value === 1) throw new Error(); })     (while b.value is not 1)
\*   w1 = watch(b, () => { if (a.value === 1) throw new Error(); })
\* Top-level code writes to a and b.  Every run of e1 creates an effect, and
\* e1 is created and the refs are written while an effect is left to create.
StackItems == {"e1", "e2", "w1"}
NewOnStack(R, i) ==
    CASE i = "e1" -> Effect(R, "e1", << TryEffect("a", 1), Read("c"), Read("b") >>, FALSE)
      [] i = "e2" -> Effect(R, "e2", << ThrowIf("b", 1) >>, FALSE)
      [] i = "w1" -> Watch(R, "w1", "b", << ThrowIf("a", 1) >>, FALSE)

NewStackItem(i) ==
    /\ AtTopLevel /\ ~created[i]
    /\ i = "e1" => FreeEffects(Cur) # {}
    /\ i = "e2" => val["b"] # 1
    /\ Commit(NewOnStack(Cur, i), "new")

SetOnStack(r, v) ==
    /\ FreeEffects(Cur) # {}
    /\ SetRef(r, v)

InitStack == InitFrom(Computed(Blank, "c", << "a", "b" >>))

NextStack ==
    \/ \E i \in StackItems : NewStackItem(i)
    \/ \E r \in Refs, v \in Values : SetOnStack(r, v)
    \/ FlushStart
    \/ FlushPass
    \/ FlushEnd

StackSpec == InitStack /\ [][NextStack]_vars

\* C16 (active-effect stack discipline): whenever the call stack is empty,
\* after any run that returned or threw, the re-entrancy stack is empty and
\* no effect is active; and the reads an effect makes after a nested effect
\* has returned or thrown, and after a computed has recomputed, are tracked
\* to that effect and to no other.
C16_StackDiscipline ==
    /\ effectStack = <<>> /\ activeEffect = Null
    /\ created["e1"] =>
          /\ SubscribedTo("e1") = {"c", "b"}
          /\ \A e \in FragmentEffects : created[e] => SubscribedTo(e) = {"a"}
    /\ SubscribedTo("nc") = {"a", "b"}

\* a flush pass has just ended with the exception of a nested effect, which
\* e1's second run had created after its first nested effect had thrown
\* inside e1's first run
C16_Witness ==
    /\ lastOp = "flushPass" /\ error = "effect" /\ val["a"] = 1
    /\ created["e4"] /\ SubscribedTo("e1") = {"c", "b"}
    /\ created["w1"] /\ created["e2"]

\* --------------------------------------------------- the fan-out scenario
\* const a = ref(0), b = ref(0);
\* created at any moment:
\*   e1 = effect(() => { a.value; effect(() => { a.value; }); }, { sync: true })
\*   e2 = effect(() => { a.value; b.value; }, { sync: true })
\* Top-level code writes to a and b and stops effects.  Every run of e1
\* creates a batched effect that reads a: it subscribes to a while the
\* trigger call that runs e1 is under way.  e1 is created and a is written
\* while an effect is left to create.
FanEffects == {"e1", "e2"}
NewFanEffect(e) ==
    /\ AtTopLevel /\ ~created[e]
    /\ e = "e1" => FreeEffects(Cur) # {}
    /\ Commit(Effect(Cur, e,
                     IF e = "e1" THEN << Read("a"), NestedEffect("a", FALSE) >>
                                 ELSE << Read("a"), Read("b") >>,
                     TRUE),
              "new")

NextFan ==
    \/ \E e \in FanEffects : NewFanEffect(e)
    \/ \E r \in Refs, v \in Values : SetOnStack(r, v)
    \/ \E e \in FanEffects \cup FragmentEffects : Stop(e)
    \/ FlushStart
    \/ FlushPass
    \/ FlushEnd

InitFan == InitFrom(Blank)

FanSpec == InitFan /\ [][NextFan]_vars

\* C38 (trigger iterates a snapshot): a write that changes r.value makes one
\* trigger call, which visits the members the dependency set of r had at the
\* moment of the call, each once: a sync member runs once, although its run
\* takes it out of the set and puts it back, and a batched member is in the
\* queue; an effect that subscribed during the call has made its first run
\* and nothing else, and is not in the queue.
C38_TriggerSnapshot ==
    [][\A r \in Refs :
          (lastOp' = "set" /\ val'[r] # val[r]) =>
             \A e \in Effects :
                IF InSeq(e, subs[r])
                THEN IF sync[e] THEN runs'[e] = 1 ELSE InSeq(e, effectQueue')
                ELSE /\ runs'[e] = (IF created'[e] /\ ~created[e] THEN 1 ELSE 0)
                     /\ InSeq(e, effectQueue') => InSeq(e, effectQueue)]_vars

\* a write to a has just run e1 and e2 once each; the effect e1 had created
\* before is in the queue, and the one it created in this run is subscribed
\* to a and not in the queue
C38_Witness ==
    /\ lastOp = "set" /\ runs["e1"] = 1 /\ runs["e2"] = 1
    /\ \E e, f \in FragmentEffects :
          /\ InSeq(e, effectQueue) /\ runs[e] = 0
          /\ runs[f] = 1 /\ InSeq(f, subs["a"]) /\ ~InSeq(f, effectQueue)

\* ------------------------------------------------- the directive scenario
\* A component's template holds a list and a conditional element:
\*   <li data-for="x of all.slice(0, a)">{{ b }}</li>     all: a plain array
\*   <p [if]="b">{{ a }}</p>
\* Its mount scans the template inside the owning scope:
\*   S = effectScope(); runInScope(S, () => scanBindings(root, store));
\* Afterwards top-level code writes to a and b, the flushes re-run the two
\* directive effects, and S.stop() unmounts.  A write is made only while
\* the rows and the branch it can ask for still have unused objects.
Mount(R) ==
    LeaveScope(Effect(Effect(EnterScope(EffectScope(R, "s1", Null), "s1"),
                             "e1", << RenderFor("a") >>, FALSE),
                      "e2", << RenderIf("b") >>, FALSE),
               Null)

InitDom ==
    \E va, vb \in Values :
        InitFrom(Mount([Blank EXCEPT !.val = [r \in Refs |-> IF r = "a" THEN va ELSE vb]]))

SetInDom(r, v) ==
    /\ Cardinality(FreeScopes(Cur)) >= (IF r = "a" THEN v ELSE val["a"]) + 1
    /\ SetRef(r, v)

NextDom ==
    \/ \E r \in Refs, v \in Values : SetInDom(r, v)
    \/ StopScope("s1")
    \/ FlushStart
    \/ FlushPass
    \/ FlushEnd

DomSpec == InitDom /\ [][NextDom]_vars

\* C6 (no leaked subscriptions): once the owning scope S is stopped, every
\* effect created for a row or for a branch, in the initial scan or in a
\* later batched re-run of the directive's effect, is stopped and is a
\* member of no dependency set.
C6_NoLeak ==
    scopeStopped["s1"] =>
        \A e \in FragmentEffects : created[e] => (stopped[e] /\ ~Subscribed(e))

\* ------------------------------------------------- the nested scenario
\* A component's template holds a conditional element with a list in it:
\*   <div [if]="b"><li data-for="x of all.slice(0, a)">{{ b }}</li></div>
\* Its mount scans the template inside the owning scope S; afterwards
\* top-level code writes to a and b and the flushes re-run the directive
\* effects.  A write is made only while the branch and the rows it can ask
\* for still have unused objects.
MountNested(R) ==
    LeaveScope(Effect(EnterScope(EffectScope(R, "s1", Null), "s1"),
                      "e1", << RenderIfFor("b") >>, FALSE),
               Null)

InitRender ==
    \E va, vb \in Values :
        InitFrom(MountNested([Blank EXCEPT !.val = [r \in Refs |-> IF r = "a" THEN va ELSE vb]]))

NextRender ==
    \/ \E r \in Refs, v \in Values : SetInDom(r, v)
    \/ FlushStart
    \/ FlushPass
    \/ FlushEnd

RenderSpec == InitRender /\ [][NextRender]_vars

\* the scopes of the branch and of the rows that are in the document
Displayed ==
    IF isInserted
    THEN {innerScope} \cup {iterationScopes[i] : i \in 1..Len(iterationScopes)}
    ELSE {}

DisposeItems == {"x1", "x2", "x3", "e1"}
DisposeHome(i) ==
    CASE i \in {"x1", "e1"} -> "s1"
      [] i = "x2" -> "s2"
      [] i = "x3" -> Null

NewDisposable(R, i) ==
    CASE i = "x1" -> OnScopeDispose(R, "x1", << ThrowIf("a", 1) >>)
      [] i = "x2" -> OnScopeDispose(R, "x2", <<>>)
      [] i = "x3" -> OnScopeDispose(R, "x3", <<>>)
      [] i = "e1" -> Effect(R, "e1", << Read("a") >>, FALSE)

NewInDispose(i) ==
    /\ AtTopLevel /\ ~created[i]
    /\ DisposeHome(i) # Null => scopeCreated[DisposeHome(i)]
    /\ Commit(LeaveScope(NewDisposable(EnterScope(Cur, DisposeHome(i)), i), Null), "new")

InitDispose == InitFrom(Blank)

NextDispose ==
    \/ \E v \in Values : SetRef("a", v)
    \/ \E s \in ScopeScopes, p \in ScopeScopes \cup {Null}, x \in BOOLEAN : NewScope(s, p, x)
    \/ \E i \in DisposeItems : NewInDispose(i)
    \/ \E s \in ScopeScopes : StopScope(s)
    \/ FlushStart
    \/ FlushPass
    \/ FlushEnd

DisposeSpec == InitDispose /\ [][NextDispose]_vars

\* the scope s, or the scope it was created under, has been stopped
UnderStopped(s) ==
    scopeStopped[s] \/ (parentOf[s] # Null /\ scopeStopped[parentOf[s]])

\* C19 (onScopeDispose): a callback registered by onScopeDispose(fn) in a
\* scope has been invoked exactly once as soon as that scope or the scope
\* above it has been stopped, and not at all before; onScopeDispose(fn)
\* called with no scope to register in puts fn into no list, and fn is
\* never invoked.
C19_OnScopeDispose ==
    \A x \in Disposers :
        created[x] =>
            IF owner[x] = Null
            THEN disposed[x] = 0 /\ \A s \in Scopes : ~InSeq(x, effects[s])
            ELSE disposed[x] = (IF UnderStopped(owner[x]) THEN 1 ELSE 0)

\* C33 (teardown survives a throwing member): once scope.stop() has been
\* called, whether it returned or threw, every effect registered under the
\* scope is stopped and subscribed to nothing, every scope registered under
\* it is stopped, and the scope's lists hold nothing that was registered
\* before the call.
C33_TeardownSurvives ==
    \A s \in Scopes :
        scopeStopped[s] =>
            /\ effects[s] = <<>>
            /\ \A c \in Scopes : parentOf[c] = s => (scopeStopped[c] /\ ~InSeq(c, children[s]))
            /\ \A e \in Effects \ Disposers : (created[e] /\ owner[e] = s) => (stopped[e] /\ ~Subscribed(e))

\* ------------------------------------------------ the component scenario
\* const a = ref(0), b = ref(0);
\* class Widget extends ReactiveComponent {
\*     setup ()    { effect(() => { a.value; }); return { b }; }
\*     template () { return "<span>{b}</span>"; }
\* }
\* One Widget element is connected to and disconnected from the document, in
\* turn; top-level code writes to a and b.  Every mount creates two effects:
\* the one of setup, and the text binding that scanBindings creates for {b}.
\* The element is connected while effects are left to create.
MountEffects == << << "e1", "e2" >>, << "e3", "e4" >> >>
ComponentEffects == {MountEffects[i][j] : i \in 1..Len(MountEffects), j \in 1..2}
FreeMounts(R) == {i \in 1..Len(MountEffects) : ~R.created[MountEffects[i][1]]}
NewMountOf(R) == MountEffects[CHOOSE i \in FreeMounts(R) : \A j \in FreeMounts(R) : i <= j]

\* constructor: this._mounted = false; this._scope = effectScope();
NewComponent(R) == [EffectScope(R, "s1", Null) EXCEPT !.mounted = FALSE]

\* connectedCallback ()
ConnectedCallback(R) ==
    IF ~R.mounted
    THEN LET es == NewMountOf(R)
         IN  [LeaveScope(Effect(Effect(EnterScope(R, "s1"),
                                       es[1], << Read("a") >>, FALSE),
                                es[2], << Read("b") >>, FALSE),
                         R.activeScope)
              EXCEPT !.mounted = TRUE]
    ELSE R

\* disconnectedCallback (): this._scope.stop(); this._mounted = false;
DisconnectedCallback(R) ==
    LET R1 == Invoke(R, "scopeStop", "s1", 0, 0)
    IN  IF R1.exc THEN R1 ELSE [R1 EXCEPT !.mounted = FALSE]

\* the element is inserted into the document
Connect ==
    /\ AtTopLevel /\ ~mounted /\ FreeMounts(Cur) # {}
    /\ Commit(ConnectedCallback(Cur), "connect")

\* the element is removed from the document
Disconnect ==
    /\ AtTopLevel /\ mounted
    /\ Commit(DisconnectedCallback(Cur), "disconnect")

InitComponent == InitFrom(NewComponent(Blank))

NextComponent ==
    \/ \E r \in Refs, v \in Values : SetRef(r, v)
    \/ Connect
    \/ Disconnect
    \/ FlushStart
    \/ FlushPass
    \/ FlushEnd

ComponentSpec == InitComponent /\ [][NextComponent]_vars

\* C20 (component unmount): whenever the element is disconnected, every
\* effect that a mount of the component created, the first or a later one,
\* is stopped.
C20_Unmount ==
    ~mounted => \A e \in ComponentEffects : created[e] => stopped[e]

\* ---------------------------------------------- the watch-on-change scenario
\* const a = ref(0), b = ref(0);
\* const c = computed(() => a.value + b.value);
\* created at any moment:
\*   w1 = watch(a, () => {});
\*   w2 = watch(c, () => {});
\* Top-level code writes to a and b, and tries c.value = v.
ChangeSource(w) == IF w = "w1" THEN "a" ELSE "c"

NewChangeWatch(w) ==
    /\ AtTopLevel /\ ~created[w]
    /\ Commit(Watch(Cur, w, ChangeSource(w), <<>>, FALSE), "new")

InitChange ==
    InitFrom(Computed([Blank EXCEPT !.observed = Watchers], "c", << "a", "b" >>))

NextChange ==
    \/ \E w \in Watchers : NewChangeWatch(w)
    \/ \E r \in Refs, v \in Values : SetRef(r, v)
    \/ \E v \in Values : SetComputed("c", v)
    \/ FlushStart
    \/ FlushPass
    \/ FlushEnd

ChangeSpec == InitChange /\ [][NextChange]_vars

\* C22 (watch fires on change): whenever a watcher's callback is invoked on
\* a re-run, the value of the source it is given differs from the value the
\* previous run observed, which it is given as oldValue.
C22_FiresOnChange ==
    \A w \in Watchers :
        (cbArgs[w] # << Undef, Undef >> /\ initialized[w] /\ cbArgs[w][2] # Undef)
            => cbArgs[w][1] # cbArgs[w][2]

\* C28 (computed is read-only): an assignment to c.value leaves the cached
\* value, the dirty flag, the refs and every dependency set as they were,
\* invokes no callback, enqueues nothing and schedules no flush.
C28_ReadOnly ==
    [][lastOp' = "setComputed" =>
          /\ cached' = cached /\ dirty' = dirty /\ val' = val /\ subs' = subs
          /\ effectQueue' = effectQueue /\ isFlushPending' = isFlushPending
          /\ \A e \in Effects : runs'[e] = 0]_vars

\* c.value = v has just been refused while the watcher of c is subscribed
\* to it and c holds the cached value 1
C28_Witness ==
    /\ lastOp = "setComputed" /\ InSeq("w2", subs["c"])
    /\ ~dirty["c"] /\ cached["c"] = 1 /\ effectQueue = <<>>

\* ---------------------------------------------- the throwing-flush scenario
\* const a = ref(0), b = ref(0);
\* created at any moment and in any order:
\*   e1 = effect(() => { a.value; b.value = 1; })
\*   e2 = effect(() => { if (a.value === 1) throw new Error(); })     (while a.value is not 1)
\*   e3 = effect(() => { b.value; a.value; })
\* Top-level code writes to a and b.
ThrowItems == {"e1", "e2", "e3"}
ThrowFn(e) ==
    CASE e = "e1" -> << Read("a"), Write("b", 1) >>
      [] e = "e2" -> << ThrowIf("a", 1) >>
      [] e = "e3" -> << Read("b"), Read("a") >>

NewThrowItem(e) ==
    /\ AtTopLevel /\ ~created[e]
    /\ e = "e2" => val["a"] # 1
    /\ Commit(Effect(Cur, e, ThrowFn(e), FALSE), "new")

InitThrow == InitFrom(Blank)

NextThrow ==
    \/ \E e \in ThrowItems : NewThrowItem(e)
    \/ \E r \in Refs, v \in Values : SetRef(r, v)
    \/ FlushStart
    \/ FlushPass
    \/ FlushEnd

ThrowSpec == InitThrow /\ [][NextThrow]_vars

C30_Isolation ==
    [][(lastOp' = "flushPass" /\ error' = "effect") =>
          \A e \in Effects :
             ((InSeq(e, effectQueue) /\ ~stopped'[e] /\ runs'[e] = 0)
                 \/ InSeq(e, effectQueue'))
             => (InSeq(e, effectQueue') /\ isFlushPending')]_vars

-----------------------------------------------------------------------------
\* Arrays behind refs: a = ref([0]) is wrapped by the constructor with a's
\* dependency set, b = ref(0), and a second array that nothing has wrapped
\* yet.  e1 is a batched effect that reads a.value and e2 a sync effect that
\* reads b.value.

ArrayObjects == {2, 3}
ArrayRefs    == {ObjRef(i) : i \in ArrayObjects}
ArrayItems   == {0, 1}
ArrayEffects == {"e1", "e2"}
ArrayFn(e)   == IF e = "e1" THEN << Read("a") >> ELSE << Read("b") >>

NewArrayEffect(e) ==
    /\ AtTopLevel /\ ~created[e]
    /\ Commit(Effect(Cur, e, ArrayFn(e), e = "e2"), "new")

\* r.value[m] = v and r.value.method(x), at top level
MutateOp(r) == IF r = "a" THEN "mutate a" ELSE "mutate b"

MutateIndex(r, m, v) ==
    /\ AtTopLevel /\ IsArray(Cur, val[r])
    /\ m = "q" => heap[CellOf(val[r])].p # Undef
    /\ Commit(Invoke(Cur, "arraySetIndex", val[r], m, v), MutateOp(r))

MutateMethod(r, method, x) ==
    /\ AtTopLevel /\ IsArray(Cur, val[r])
    /\ method \in {"push", "unshift"} => LenOf(heap[CellOf(val[r])]) < 2
    /\ Commit(PatchedMethod(Cur, val[r], method, x), MutateOp(r))

InitArray ==
    InitFrom(CreateArrayProxy(
               [Blank EXCEPT !.heap = [i \in HeapCells |->
                                         IF i = 2 THEN [kind |-> "array", p |-> 0, q |-> Undef]
                                         ELSE IF i = 3 THEN [kind |-> "array", p |-> Undef, q |-> Undef]
                                         ELSE NoObject],
                             !.val["a"] = ObjRef(2)],
               ObjRef(2), "a"))

NextArray ==
    \/ \E e \in ArrayEffects : NewArrayEffect(e)
    \/ \E r \in Refs, v \in {0} \cup ArrayRefs : SetRef(r, v)
    \/ \E r \in Refs, m \in MemberNames, v \in ArrayItems : MutateIndex(r, m, v)
    \/ \E r \in Refs, method \in ArrayMutatorMethods, x \in ArrayItems :
          MutateMethod(r, method, x)
    \/ FlushStart
    \/ FlushPass
    \/ FlushEnd

ArraySpec == InitArray /\ [][NextArray]_vars

\* the subscribers of r before the step have been triggered by it: the sync
\* ones have run, the batched ones are in the scheduler queue
Triggered(r) ==
    \A i \in 1..Len(subs[r]) :
       IF sync[subs[r][i]] THEN runs'[subs[r][i]] >= 1
       ELSE InSeq(subs[r][i], effectQueue')

\* C24: for a ref holding an array, every mutator method and every numeric
\* index assignment on ref.value triggers the dependency set of the ref (the
\* set its readers are in) and leaves ref.value the same array.
C24_ArrayMutation ==
    [][\A r \in Refs :
          (lastOp' = MutateOp(r) /\ IsArray(Cur, val[r])) =>
             (val'[r] = val[r] /\ Triggered(r))]_vars

\* C25: after r.value = A for an array A that was not the value, the effects
\* subscribed to r are still subscribed, and a mutation in place of the new
\* r.value triggers r's dependency set.  The array that a holds from its
\* construction is left to C24.
C25_Replacement ==
    [][\A r \in Refs :
          /\ (lastOp' = "set" /\ val'[r] # val[r] /\ IsArray(Cur, val'[r])) =>
                \A i \in 1..Len(subs[r]) : InSeq(subs[r][i], subs'[r])
          /\ (lastOp' = MutateOp(r) /\ IsArray(Cur, val[r])
                /\ << r, val[r] >> # << "a", ObjRef(2) >>) => Triggered(r)]_vars

-----------------------------------------------------------------------------
\* A reactive object: state = reactive({ p: { p: 0 }, q: 0 }) and a = ref([]).
\* e1 reads state.q, e2 (sync) reads state.p.p, e3 reads a.value; w1 watches
\* state with deep: true and w2 watches it without.

State == ProxyRef(1)
PropValues == {0, 1}
ReactiveEffects == {"e1", "e2", "e3"}
ReactiveFn(e) ==
    CASE e = "e1" -> << Get(<< "q" >>) >>
      [] e = "e2" -> << Get(<< "p", "p" >>) >>
      [] e = "e3" -> << Read("a") >>

NewReactiveEffect(e) ==
    /\ AtTopLevel /\ ~created[e]
    /\ Commit(Effect(Cur, e, ReactiveFn(e), e = "e2"), "new")

\* one watcher in a run of the scenario: the deep one or the other
NewReactiveWatch(w) ==
    /\ AtTopLevel /\ \A x \in Watchers : ~created[x]
    /\ Commit(WatchReactive(Cur, w, State, <<>>, w = "w1"), "new")

\* state.m = v for path = <<>>, state.p.m = v for path = << "p" >>
SetProp(path, m, v) ==
    /\ AtTopLevel
    /\ LET G == GetPath(Cur, State, path, 1)
       IN  Commit(ProxySet(G, G.ret, m, v), "setProp")

\* state.m = state.m and state.p.m = state.p.m: the value that the property
\* has is written to it.  Each state.p = state.p puts one more proxy around
\* the nested object, and the model has ProxyIds to give: the write is made
\* while the object itself is stored.
SetSame(path, m) ==
    /\ AtTopLevel
    /\ (path = <<>> /\ m = "p") => IsObject(heap[1].p)
    /\ LET G == GetPath(Cur, State, path, 1)
           V == ProxyGet(G, G.ret, m)
       IN  Commit(ProxySet(V, G.ret, m, V.ret), "same")

\* reactive(o) called again
CallReactive(t) ==
    /\ AtTopLevel
    /\ Commit(Reactive(Cur, t), "reactive")

\* state.p; state.p;
GetTwice(path) ==
    /\ AtTopLevel
    /\ Commit(GetPath(GetPath(Cur, State, path, 1), State, path, 1), "getTwice")

InitReactive ==
    InitFrom(Reactive(CreateArrayProxy(
               [Blank EXCEPT !.heap = [i \in HeapCells |->
                                         CASE i = 1 -> [kind |-> "object", p |-> ObjRef(2), q |-> 0]
                                           [] i = 2 -> [kind |-> "object", p |-> 0, q |-> Undef]
                                           [] i = 3 -> [kind |-> "array", p |-> Undef, q |-> Undef]
                                           [] OTHER -> NoObject],
                             !.val["a"] = ObjRef(3)],
               ObjRef(3), "a"), ObjRef(1)))

NextReactive ==
    \/ \E w \in Watchers : NewReactiveWatch(w)
    \/ \E v \in PropValues : SetProp(<<>>, "q", v) \/ SetProp(<< "p" >>, "p", v)
    \/ SetProp(<<>>, "p", ObjRef(2))
    \/ SetSame(<<>>, "p")
    \/ \E t \in {ObjRef(1), ObjRef(2)} : CallReactive(t)
    \/ GetTwice(<< "p" >>)
    \/ FlushStart
    \/ FlushPass
    \/ FlushEnd

ReactiveSpec == InitReactive /\ [][NextReactive]_vars

\* C27: reactive(o) returns the same proxy for the same o on every call, and
\* so does every read of a property that holds o: no target was ever handed
\* two proxies.
C27_Identity == \A t \in Targets : Cardinality(handed[t]) <= 1

\* state.p has been read twice in a row, and reactive() called for the
\* object it holds
C27_Witness ==
    /\ lastOp = "getTwice"
    /\ handed[heap[1].p] = {reactiveMap[heap[1].p]}
    /\ handed[ObjRef(1)] = {State}

\* the proxy that state.p returns, once something has read state.p
NestedState == reactiveMap[heap[1].p]

\* the watcher has run since the last change and is subscribed to every
\* property of state and of state.p
SubscribedDeep(w) ==
    /\ InSeq(w, subs[SubsOf(State, "p")])
    /\ InSeq(w, subs[SubsOf(State, "q")])
    /\ NestedState # Undef
    /\ InSeq(w, subs[SubsOf(NestedState, "p")])

\* C23: a watcher of a reactive object with deep: true is subscribed to every
\* nested property of the object (once it has run after the last change);
\* a watcher without deep is subscribed to no property of it, and no
\* property change runs its callback.
C23_DeepOption ==
    /\ (created["w1"] /\ ~InSeq("w1", effectQueue)) => SubscribedDeep("w1")
    /\ created["w2"] => /\ \A c \in PropCells : ~InSeq("w2", subs[c])
                        /\ runs["w2"] = 0

-----------------------------------------------------------------------------
\* Property writes with the three effects, which top-level code may stop,
\* and no watcher.

NextProp ==
    \/ \E e \in ReactiveEffects : NewReactiveEffect(e)
    \/ \E v \in PropValues : SetProp(<<>>, "q", v) \/ SetProp(<< "p" >>, "p", v)
    \/ SetProp(<<>>, "p", ObjRef(2))
    \/ SetSame(<<>>, "p")
    \/ \E e \in ReactiveEffects : Stop(e)
    \/ FlushStart
    \/ FlushPass
    \/ FlushEnd

PropSpec == InitReactive /\ [][NextProp]_vars

\* the properties whose value the step changed: <<object, name>>
Written ==
    {w \in UserObjects \X MemberNames : heap'[w[1]][w[2]] # heap[w[1]][w[2]]}

\* the last run of e read property m of object i, through some proxy of it
ReadProp(e, i, m) ==
    \E k \in ProxyIds :
        /\ target[k] # Undef
        /\ RawOf([target |-> target], ProxyRef(k)) = ObjRef(i)
        /\ InSeq(SubsOf(ProxyRef(k), m), deps[e])

\* C37 (per-property granularity): a value-changing write to a property of a
\* reactive object triggers exactly the non-stopped effects whose last run
\* read that property of that object: the sync ones run and the batched
\* ones are in the queue; every other effect does not run and is not
\* enqueued.
C37_PerProperty ==
    [][(lastOp' = "setProp" /\ Written # {}) =>
          \A e \in Effects :
             IF ~stopped[e] /\ \E w \in Written : ReadProp(e, w[1], w[2])
             THEN IF sync[e] THEN runs'[e] > 0 ELSE InSeq(e, effectQueue')
             ELSE /\ runs'[e] = 0
                  /\ InSeq(e, effectQueue') => InSeq(e, effectQueue)]_vars

\* state.p.p has just been written: e2, which read it, has run, and e1,
\* which read state.q only, is live and not in the queue
C37_Witness ==
    /\ lastOp = "setProp" /\ runs["e2"] >= 1
    /\ created["e1"] /\ ~stopped["e1"] /\ effectQueue = <<>>
    /\ created["e3"] /\ ~stopped["e3"]

-----------------------------------------------------------------------------
\* Cyclic graphs under a watcher:
\*   const o = { p: 0, q: 0 }, arr = [0];     or o.p = o, or o.p = arr
\*   const state = reactive(o);
\*   created at any moment: one of  w1 = watch(state, () => {}, { deep: true })
\*                                  w2 = watch(state, () => {})
\* Top-level code writes numbers to state.q, and 0, o, arr and state itself
\* to state.p, and calls reactive(state).

InitCycle ==
    \E x \in {0, ObjRef(1), ObjRef(2)} :
        InitFrom(Reactive(
           [Blank EXCEPT !.heap = [i \in HeapCells |->
                                     CASE i = 1 -> [kind |-> "object", p |-> x, q |-> 0]
                                       [] i = 2 -> [kind |-> "array", p |-> 0, q |-> Undef]
                                       [] OTHER -> NoObject]],
           ObjRef(1)))

NextCycle ==
    \/ \E w \in Watchers : NewReactiveWatch(w)
    \/ \E v \in PropValues : SetProp(<<>>, "q", v)
    \/ \E v \in {0, ObjRef(1), ObjRef(2), State} : SetProp(<<>>, "p", v)
    \/ CallReactive(State)
    \/ FlushStart
    \/ FlushPass
    \/ FlushEnd

CycleSpec == InitCycle /\ [][NextCycle]_vars

\* C39 (deep clone terminates): no run of a watcher ends with the clone's
\* recursion out of stack; and the snapshot a watcher of state holds, when
\* it has run since the last write, is an object with the number state.q
\* holds, and for state.p the number it holds, an array when it holds an
\* array, and undefined when it holds the object itself.
C39_CloneTerminates ==
    /\ error # "overflow"
    /\ \A w \in Watchers :
          (created[w] /\ initialized[w] /\ ~InSeq(w, effectQueue) /\ ~isFlushing) =>
             /\ IsObject(oldValue[w])
             /\ LET c == heap[CellOf(oldValue[w])]
                    o == heap[1]
                IN  /\ c.kind = "object" /\ c.q = o.q
                    /\ o.p = 0 => c.p = 0
                    /\ o.p = ObjRef(2) => (IsObject(c.p) /\ heap[CellOf(c.p)].kind = "array")
                    /\ RawOf([target |-> target], o.p) = ObjRef(1) => c.p = Undef

\* C40 (reactive is idempotent on proxies): reactive(p) for a proxy p has
\* returned nothing but p, at a direct call and when p is read back from a
\* property it was stored in, and no proxy has a proxy for its target.
C40_Idempotent ==
    /\ \A p \in ProxyRefs : handed[p] \subseteq {p}
    /\ \A k \in ProxyIds : target[k] # Undef => ~IsProxy(target[k])

-----------------------------------------------------------------------------
\* Writes of the value that is already there: the same object, with the
\* three effects and no watcher.

NextElision ==
    \/ \E e \in ReactiveEffects : NewReactiveEffect(e)
    \/ \E v \in PropValues : SetProp(<<>>, "q", v) \/ SetProp(<< "p" >>, "p", v)
    \/ SetProp(<<>>, "p", ObjRef(2))
    \/ SetSame(<<>>, "q") \/ SetSame(<<>>, "p") \/ SetSame(<< "p" >>, "p")
    \/ \E v \in {0, ObjRef(3)} : SetRef("a", v)
    \/ FlushStart
    \/ FlushPass
    \/ FlushEnd

ElisionSpec == InitReactive /\ [][NextElision]_vars

\* the step ran no effect, queued none and scheduled no flush
Quiet ==
    /\ \A e \in Effects : runs'[e] = 0
    /\ effectQueue' = effectQueue
    /\ isFlushPending' = isFlushPending

\* C26: a write to ref.value of the non-array value it holds, and a write to
\* a reactive property of the value it has, run no effect, enqueue none and
\* schedule no flush; a write of an array to ref.value triggers, also when it
\* is the array the ref holds.
C26_Elision ==
    [][/\ lastOp' = "same" => Quiet
       /\ (lastOp' = "setProp" /\ heap' = heap) => Quiet
       /\ (lastOp' = "set" /\ val'["a"] = val["a"] /\ ~IsArray(Cur, val["a"])) => Quiet
       /\ (lastOp' = "set" /\ IsArray(Cur, val'["a"])) => Triggered("a")]_vars

====
